---- MODULE Spec2Model ----
(***************************************************************************)
(* effect-orpc: the handler produced by EffectBuilder.effect(), the tagged *)
(* error classes it converts, the effect error registry with its plain     *)
(* projection and its constructor map, and the chain methods of            *)
(* EffectBuilder and EffectDecoratedProcedure.                             *)
(*                                                                         *)
(* JavaScript values are records with a "kind" field.  An optional option  *)
(* (status, defined) is a tuple: <<>> is undefined, <<x>> is the value x.  *)
(* An optional string (message, data, a schema) is the string "undefined"  *)
(* when absent.  Object identity is the "ref" field: "body" for an object  *)
(* the handler body constructed, "embedded" for the ORPCError a tagged     *)
(* error instance owns, "handler" for an object the handler itself         *)
(* constructs.                                                             *)
(*                                                                         *)
(* Spec and CauseSpec follow one call of a handler; ChainSpec follows a    *)
(* chain of builder and procedure method calls and a call of the handler   *)
(* it reaches; BodySpec follows a handler body that uses the errors map    *)
(* and the tagged error constructors.  TaggedSpec converts one tagged      *)
(* error instance to its ORPCError; FactorySpec defines classes from tags  *)
(* typed character by character; TreeSpec calls chain methods on any       *)
(* object made so far; ConcurrentSpec interleaves calls of one handler;    *)
(* RouterSpec enhances a router with builder.router() or builder.lazy().   *)
(***************************************************************************)
EXTENDS Integers, Sequences, FiniteSets, TLC

\* One call of a procedure's handler.
VARIABLES def, pc, opts, effectOpts, spanName, bodyCalls, runCalls,
          aborted, interrupted, exit, outcomes

\* A chain of builder and procedure method calls: the definition of the
\* object the chain has reached, the definition of the object the last
\* method was called on, that call, the registries registered so far, the
\* names of the methods called, and the names given to traced().
VARIABLES builder, receiver, lastCall, registered, chain, traces

\* A handler body using its errors map: the function it last looked up,
\* what its last construction returned or threw, the classes whose
\* constructor has run, and the constructions the body has asked for.
VARIABLES lookup, built, instances, made

\* A tagged error class being defined and used: the characters of the tag
\* given to the factory, its other arguments, the class the factory
\* returned, the instance constructed from it, and what the conversions to
\* a plain ORPCError returned.
VARIABLES tagChars, factoryCall, errorClass, errorInstance, conversions

\* Builders and procedures derived from one another: every object
\* constructed so far, in the order of construction, and the last method
\* call.
VARIABLES objects, derived

\* Calls of one handler in flight at the same time: for each call, where
\* the call is, its options, locals, run, exit and outcome.
VARIABLES calls

\* A router given to builder.router() or builder.lazy(), and what the
\* call returned.
VARIABLES routerArg, routerResult

handlerVars == <<def, pc, opts, effectOpts, spanName, bodyCalls, runCalls,
                 aborted, interrupted, exit, outcomes>>

builderVars == <<builder, receiver, lastCall, registered, chain, traces>>

errorsVars == <<lookup, built, instances, made>>

taggedVars == <<tagChars, factoryCall, errorClass, errorInstance, conversions>>

treeVars == <<objects, derived>>

routerVars == <<routerArg, routerResult>>

otherVars == <<taggedVars, treeVars, calls, routerVars>>

vars == <<handlerVars, builderVars, errorsVars, otherVars>>

\* Largest number of Sequential/Parallel nodes in a cause of CauseSpec.
MaxCombine == 2

Undefined == "undefined"

UndefinedValue == [kind |-> "Undefined"]

StringValue(s) == [kind |-> "String", value |-> s]

ErrorValue(parts) == [kind |-> "Error", message |-> parts]

(***************************************************************************)
(* Plain objects used as dictionaries.  The own string keys of an object   *)
(* are ordered by insertion, which is the order Object.entries and the     *)
(* spread syntax follow, so an object is the sequence of its entries.      *)
(***************************************************************************)
Obj(entries) == [kind |-> "Object", entries |-> entries]

Entry(key, value) == [key |-> key, value |-> value]

\* Object.keys(obj) as a set.
Keys(obj) == {obj.entries[i].key : i \in 1..Len(obj.entries)}

HasKey(obj, key) == key \in Keys(obj)

\* obj[key]: the value, or undefined for a key the object does not own.
Get(obj, key) ==
    IF HasKey(obj, key)
    THEN (CHOOSE e \in {obj.entries[i] : i \in 1..Len(obj.entries)} :
              e.key = key).value
    ELSE UndefinedValue

\* obj[key] = value: an owned key keeps its place, a new key goes last.
Assign(obj, key, value) ==
    IF HasKey(obj, key)
    THEN Obj([i \in 1..Len(obj.entries) |->
                 IF obj.entries[i].key = key THEN Entry(key, value)
                 ELSE obj.entries[i]])
    ELSE Obj(Append(obj.entries, Entry(key, value)))

\* { ...a, ...b }
RECURSIVE AssignAll(_, _)
AssignAll(obj, entries) ==
    IF entries = <<>> THEN obj
    ELSE AssignAll(Assign(obj, Head(entries).key, Head(entries).value),
                   Tail(entries))

Spread(a, b) == AssignAll(a, b.entries)

\* value[name] of a record-shaped value: undefined for an absent property.
GetProp(value, name) ==
    IF name \in DOMAIN value THEN value[name] ELSE Undefined

(***************************************************************************)
(* ORPCError of @orpc/client, as tagged-error.ts uses it.                  *)
(***************************************************************************)
COMMON_ORPC_ERROR_DEFS ==
    [BAD_REQUEST |-> [status |-> 400, message |-> "Bad Request"],
     FORBIDDEN |-> [status |-> 403, message |-> "Forbidden"],
     NOT_FOUND |-> [status |-> 404, message |-> "Not Found"],
     CONFLICT |-> [status |-> 409, message |-> "Conflict"],
     INTERNAL_SERVER_ERROR |-> [status |-> 500, message |-> "Internal Server Error"]]

isORPCErrorStatus(status) == status < 200 \/ status >= 400

fallbackORPCErrorStatus(code, status) ==
    IF status # <<>> THEN status[1]
    ELSE IF code \in DOMAIN COMMON_ORPC_ERROR_DEFS
         THEN COMMON_ORPC_ERROR_DEFS[code].status
         ELSE 500

fallbackORPCErrorMessage(code, message) ==
    IF message # Undefined THEN message
    ELSE IF code \in DOMAIN COMMON_ORPC_ERROR_DEFS
         THEN COMMON_ORPC_ERROR_DEFS[code].message
         ELSE code

NoOptions ==
    [status |-> <<>>, message |-> Undefined, data |-> Undefined,
     defined |-> <<>>, cause |-> UndefinedValue]

\* new ORPCError(code, options); ref names the site that constructs it.
ORPCError(ref, code, options) ==
    [kind |-> "ORPCError", ref |-> ref, code |-> code,
     status |-> fallbackORPCErrorStatus(code, options.status),
     message |-> fallbackORPCErrorMessage(code, options.message),
     data |-> options.data,
     defined |-> IF options.defined = <<>> THEN FALSE ELSE options.defined[1],
     cause |-> options.cause]

isORPCError(value) == value.kind = "ORPCError"

(***************************************************************************)
(* Tagged error classes (ORPCTaggedError) and their instances.             *)
(***************************************************************************)
\* The class the factory returns: static schema, _tag, code and the
\* default status and message captured by the constructor's closure.
ORPCTaggedErrorBase(schema, tag, code, options) ==
    [kind |-> "TaggedClass", schema |-> schema, _tag |-> tag, code |-> code,
     defaultStatus |-> options.status, defaultMessage |-> options.message]

\* typeof value === "function" with string statics _tag and code.
isORPCTaggedErrorClass(value) ==
    value.kind = "TaggedClass" /\ {"_tag", "code"} \subseteq DOMAIN value

\* ORPCErrorSymbol in value; the field "embedded" is value[ORPCErrorSymbol].
isORPCTaggedError(value) == "embedded" \in DOMAIN value

Thrown(error) == [kind |-> "Thrown", error |-> error]

InvalidStatusError ==
    ErrorValue(<<"[ORPCTaggedError] Invalid error status code.">>)

\* NewTaggedError with the embedded ORPCError built without the defined flag.
NewTaggedError_EmbeddedNotDefined(class, o) ==
    LET status == IF o.status # <<>> THEN o.status ELSE class.defaultStatus
        inputMessage == IF o.message # Undefined THEN o.message
                        ELSE class.defaultMessage
        finalStatus == fallbackORPCErrorStatus(class.code, status)
        finalMessage == fallbackORPCErrorMessage(class.code, inputMessage)
        defined == IF o.defined = <<>> THEN TRUE ELSE o.defined[1]
    IN  IF status # <<>> /\ ~isORPCErrorStatus(status[1])
        THEN Thrown(InvalidStatusError)
        ELSE [kind |-> "Tagged", ref |-> "body", _tag |-> class._tag,
              code |-> class.code, status |-> finalStatus,
              message |-> finalMessage, data |-> o.data,
              defined |-> defined, cause |-> o.cause,
              embedded |-> ORPCError("embedded", class.code,
                              [status |-> <<finalStatus>>,
                               message |-> finalMessage, data |-> o.data,
                               defined |-> <<>>, cause |-> o.cause])]

\* NewTaggedError without the check of the status.
NewTaggedError_NoStatusCheck(class, o) ==
    LET status == IF o.status # <<>> THEN o.status ELSE class.defaultStatus
        inputMessage == IF o.message # Undefined THEN o.message
                        ELSE class.defaultMessage
        finalStatus == fallbackORPCErrorStatus(class.code, status)
        finalMessage == fallbackORPCErrorMessage(class.code, inputMessage)
        defined == IF o.defined = <<>> THEN TRUE ELSE o.defined[1]
    IN  [kind |-> "Tagged", ref |-> "body", _tag |-> class._tag,
         code |-> class.code, status |-> finalStatus,
         message |-> finalMessage, data |-> o.data,
         defined |-> defined, cause |-> o.cause,
         embedded |-> ORPCError("embedded", class.code,
                         [status |-> <<finalStatus>>,
                          message |-> finalMessage, data |-> o.data,
                          defined |-> <<defined>>, cause |-> o.cause])]

\* NewTaggedError preferring the defaults of the class to the options of
\* the call.
NewTaggedError_DefaultsFirst(class, o) ==
    LET status == IF class.defaultStatus # <<>> THEN class.defaultStatus
                  ELSE o.status
        inputMessage == IF class.defaultMessage # Undefined
                        THEN class.defaultMessage
                        ELSE o.message
        finalStatus == fallbackORPCErrorStatus(class.code, status)
        finalMessage == fallbackORPCErrorMessage(class.code, inputMessage)
        defined == IF o.defined = <<>> THEN TRUE ELSE o.defined[1]
    IN  IF status # <<>> /\ ~isORPCErrorStatus(status[1])
        THEN Thrown(InvalidStatusError)
        ELSE [kind |-> "Tagged", ref |-> "body", _tag |-> class._tag,
              code |-> class.code, status |-> finalStatus,
              message |-> finalMessage, data |-> o.data,
              defined |-> defined, cause |-> o.cause,
              embedded |-> ORPCError("embedded", class.code,
                              [status |-> <<finalStatus>>,
                               message |-> finalMessage, data |-> o.data,
                               defined |-> <<defined>>, cause |-> o.cause])]

\* new Class(o): the instance, or the usage error the constructor throws.
NewTaggedError(class, o) ==
    LET status == IF o.status # <<>> THEN o.status ELSE class.defaultStatus
        inputMessage == IF o.message # Undefined THEN o.message
                        ELSE class.defaultMessage
        finalStatus == fallbackORPCErrorStatus(class.code, status)
        finalMessage == fallbackORPCErrorMessage(class.code, inputMessage)
        defined == IF o.defined = <<>> THEN TRUE ELSE o.defined[1]
    IN  IF status # <<>> /\ ~isORPCErrorStatus(status[1])
        THEN Thrown(InvalidStatusError)
        ELSE [kind |-> "Tagged", ref |-> "body", _tag |-> class._tag,
              code |-> class.code, status |-> finalStatus,
              message |-> finalMessage, data |-> o.data,
              defined |-> defined, cause |-> o.cause,
              embedded |-> ORPCError("embedded", class.code,
                              [status |-> <<finalStatus>>,
                               message |-> finalMessage, data |-> o.data,
                               defined |-> <<defined>>, cause |-> o.cause])]

\* A string the code looks into is the sequence of its characters.
LowerLetters ==
    <<"a", "b", "c", "d", "e", "f", "g", "h", "i", "j", "k", "l", "m",
      "n", "o", "p", "q", "r", "s", "t", "u", "v", "w", "x", "y", "z">>

UpperLetters ==
    <<"A", "B", "C", "D", "E", "F", "G", "H", "I", "J", "K", "L", "M",
      "N", "O", "P", "Q", "R", "S", "T", "U", "V", "W", "X", "Y", "Z">>

\* [a-z]
IsLower(c) == \E i \in 1..Len(LowerLetters) : LowerLetters[i] = c

\* [A-Z]
IsUpper(c) == \E i \in 1..Len(UpperLetters) : UpperLetters[i] = c

\* c.toUpperCase()
UpperOf(c) ==
    IF IsLower(c)
    THEN UpperLetters[CHOOSE i \in 1..Len(LowerLetters) : LowerLetters[i] = c]
    ELSE c

\* The string of a sequence of characters.
RECURSIVE Str(_)
Str(chars) == IF chars = <<>> THEN "" ELSE chars[1] \o Str(Tail(chars))

\* str.replace(/([a-z])([A-Z])/g, "$1_$2"): matches are found from the
\* left and the search goes on after the end of each match.
RECURSIVE ReplaceLowerUpper(_)
ReplaceLowerUpper(str) ==
    IF Len(str) < 2 THEN str
    ELSE IF IsLower(str[1]) /\ IsUpper(str[2])
         THEN <<str[1], "_", str[2]>>
              \o ReplaceLowerUpper(SubSeq(str, 3, Len(str)))
         ELSE <<str[1]>> \o ReplaceLowerUpper(Tail(str))

\* str.replace(/([A-Z])([A-Z][a-z])/g, "$1_$2")
RECURSIVE ReplaceUpperWord(_)
ReplaceUpperWord(str) ==
    IF Len(str) < 3 THEN str
    ELSE IF IsUpper(str[1]) /\ IsUpper(str[2]) /\ IsLower(str[3])
         THEN <<str[1], "_", str[2], str[3]>>
              \o ReplaceUpperWord(SubSeq(str, 4, Len(str)))
         ELSE <<str[1]>> \o ReplaceUpperWord(Tail(str))

\* str.toUpperCase()
toUpperCase(str) == [i \in 1..Len(str) |-> UpperOf(str[i])]

\* toConstantCase without its second replacement.
toConstantCase_OneReplace(str) == toUpperCase(ReplaceLowerUpper(str))

toConstantCase(str) ==
    toUpperCase(ReplaceUpperWord(ReplaceLowerUpper(str)))

\* ORPCTaggedError(schema)(tag, codeOrOptions, defaultOptions): the class.
ORPCTaggedError(schema, tag, codeOrOptions, defaultOptions) ==
    LET isCodeProvided == codeOrOptions.kind = "String"
        code == IF isCodeProvided THEN codeOrOptions.value
                ELSE Str(toConstantCase(tag))
        options == IF isCodeProvided THEN defaultOptions ELSE codeOrOptions
        defaultStatus == IF options.kind = "Undefined" THEN <<>>
                         ELSE options.status
        defaultMessage == IF options.kind = "Undefined" THEN Undefined
                          ELSE options.message
    IN  ORPCTaggedErrorBase(schema, Str(tag), code,
                            [status |-> defaultStatus,
                             message |-> defaultMessage])

\* instance.toORPCError(): this[ORPCErrorSymbol].
toORPCError(error) == error.embedded

\* The function toORPCError building a plain error of its own on every call.
toORPCErrorOf_Rebuilt(error) ==
    ORPCError("converted", error.code,
              [status |-> <<error.status>>, message |-> error.message,
               data |-> error.data, defined |-> <<error.defined>>,
               cause |-> error.cause])

\* toORPCError(error), the exported function: error[ORPCErrorSymbol].
toORPCErrorOf(error) == error.embedded

\* What a conversion of a tagged error instance to a plain ORPCError
\* returns: by the method, by the exported function, by reading the symbol.
ConvertVia(via, error) ==
    CASE via = "method" -> toORPCError(error)
      [] via = "function" -> toORPCErrorOf(error)
      [] via = "symbol" -> error.embedded

(***************************************************************************)
(* Effect error registries and the constructor map.                        *)
(***************************************************************************)
ErrorMapItem(status, message, data) ==
    [kind |-> "Template", status |-> status, message |-> message,
     data |-> data]

\* The proxy over the registry (errors ?? {}); building it runs no
\* constructor.
createEffectErrorConstructorMap(errors) ==
    [kind |-> "ConstructorMap",
     target |-> IF errors.kind = "Undefined" THEN Obj(<<>>) ELSE errors]

\* A get trap handing out the tagged class itself.
ConstructorMapGet_PassThrough(proxy, code) ==
    LET config == Get(proxy.target, code)
    IN  IF isORPCTaggedErrorClass(config)
        THEN config
        ELSE [kind |-> "Function", body |-> "new ORPCError", code |-> code,
              config |-> config]

\* A get trap treating every entry as a plain template filed under the key.
ConstructorMapGet_PlainUnderKey(proxy, code) ==
    LET config == Get(proxy.target, code)
    IN  [kind |-> "Function", body |-> "new ORPCError", code |-> code,
         config |-> IF isORPCTaggedErrorClass(config)
                    THEN ErrorMapItem(config.defaultStatus,
                                      config.defaultMessage, config.schema)
                    ELSE config]

\* proxy[code]: the function the proxy's get trap returns for a string key.
\* It closes over the key and over the registry's entry for it.
ConstructorMapGet(proxy, code) ==
    LET config == Get(proxy.target, code)
    IN  IF isORPCTaggedErrorClass(config)
        THEN [kind |-> "Function", body |-> "new config", code |-> code,
              config |-> config]
        ELSE [kind |-> "Function", body |-> "new ORPCError", code |-> code,
              config |-> config]

\* FunctionCall whose plain factory leaves the defined flag out.
FunctionCall_NotDefined(fn, options) ==
    LET config == fn.config
        hasConfig == config.kind # "Undefined"
    IN  IF fn.body = "new config"
        THEN NewTaggedError(config, options)
        ELSE ORPCError("body", fn.code,
                 [defined |-> <<>>,
                  status |-> IF hasConfig THEN config.status ELSE <<>>,
                  message |-> IF options.message # Undefined
                              THEN options.message
                              ELSE IF hasConfig THEN config.message
                                   ELSE Undefined,
                  data |-> options.data,
                  cause |-> options.cause])

\* FunctionCall whose class wrapper constructs without the call's options.
FunctionCall_NoArgs(fn, options) ==
    LET config == fn.config
        hasConfig == config.kind # "Undefined"
    IN  IF fn.body = "new config"
        THEN NewTaggedError(config, NoOptions)
        ELSE ORPCError("body", fn.code,
                 [defined |-> <<hasConfig>>,
                  status |-> IF hasConfig THEN config.status ELSE <<>>,
                  message |-> IF options.message # Undefined
                              THEN options.message
                              ELSE IF hasConfig THEN config.message
                                   ELSE Undefined,
                  data |-> options.data,
                  cause |-> options.cause])

\* FunctionCall whose plain factory prefers the template's message to the
\* message of the call.
FunctionCall_TemplateMessageFirst(fn, options) ==
    LET config == fn.config
        hasConfig == config.kind # "Undefined"
    IN  IF fn.body = "new config"
        THEN NewTaggedError(config, options)
        ELSE ORPCError("body", fn.code,
                 [defined |-> <<hasConfig>>,
                  status |-> IF hasConfig THEN config.status ELSE <<>>,
                  message |-> IF hasConfig /\ config.message # Undefined
                              THEN config.message
                              ELSE options.message,
                  data |-> options.data,
                  cause |-> options.cause])

\* fn(options) for a function the get trap returned.
FunctionCall(fn, options) ==
    LET config == fn.config
        hasConfig == config.kind # "Undefined"
    IN  IF fn.body = "new config"
        THEN NewTaggedError(config, options)
        ELSE ORPCError("body", fn.code,
                 [defined |-> <<hasConfig>>,
                  status |-> IF hasConfig THEN config.status ELSE <<>>,
                  message |-> IF options.message # Undefined
                              THEN options.message
                              ELSE IF hasConfig THEN config.message
                                   ELSE Undefined,
                  data |-> options.data,
                  cause |-> options.cause])

\* A class wrapper that constructs two instances per call.
FunctionNews_Twice(fn) ==
    IF fn.body = "new config" THEN <<fn.config, fn.config>> ELSE <<>>

\* The constructors one call of fn runs with new.
FunctionNews(fn) ==
    IF fn.body = "new config" THEN <<fn.config>> ELSE <<>>

\* proxy[code](options)
ConstructorMapCall(proxy, code, options) ==
    FunctionCall(ConstructorMapGet(proxy, code), options)

\* The loop body filing a tagged class under the registry key.
effectErrorMapToErrorMapStep_KeyedByKey(result, code, ClassOrErrorItem) ==
    IF ClassOrErrorItem.kind = "Undefined" THEN result
    ELSE IF isORPCTaggedErrorClass(ClassOrErrorItem)
    THEN LET classInstance == NewTaggedError(ClassOrErrorItem, NoOptions)
         IN  IF classInstance.kind = "Thrown" THEN classInstance
             ELSE Assign(result, code,
                      ErrorMapItem(<<classInstance.status>>,
                                   classInstance.message,
                                   GetProp(classInstance, "schema")))
    ELSE Assign(result, code, ClassOrErrorItem)

\* The body of the loop of effectErrorMapToErrorMap for one entry: the
\* result so far, or the error the class constructor threw.
effectErrorMapToErrorMapStep(result, code, ClassOrErrorItem) ==
    IF ClassOrErrorItem.kind = "Undefined" THEN result
    ELSE IF isORPCTaggedErrorClass(ClassOrErrorItem)
    THEN LET classInstance == NewTaggedError(ClassOrErrorItem, NoOptions)
         IN  IF classInstance.kind = "Thrown" THEN classInstance
             ELSE Assign(result, classInstance.code,
                      ErrorMapItem(<<classInstance.status>>,
                                   classInstance.message,
                                   GetProp(classInstance, "schema")))
    ELSE Assign(result, code, ClassOrErrorItem)

\* The loop over Object.entries(errorMap), left by a throw.
RECURSIVE effectErrorMapToErrorMapLoop(_, _)
effectErrorMapToErrorMapLoop(entries, result) ==
    IF entries = <<>> THEN result
    ELSE LET next == effectErrorMapToErrorMapStep(result, Head(entries).key,
                                                  Head(entries).value)
         IN  IF next.kind = "Thrown" THEN next
             ELSE effectErrorMapToErrorMapLoop(Tail(entries), next)

\* effectErrorMapToErrorMap(errorMap): the plain registry, or the error
\* thrown by the constructor of a tagged class of the registry.
effectErrorMapToErrorMap(errorMap) ==
    IF errorMap.kind = "Undefined" THEN Obj(<<>>)
    ELSE effectErrorMapToErrorMapLoop(errorMap.entries, Obj(<<>>))

\* mergeAnyErrorMaps(map1, map2)
mergeAnyErrorMaps(map1, map2) == Spread(map1, map2)

(***************************************************************************)
(* Exit and Cause of the effect runtime, and Cause.match.                  *)
(***************************************************************************)
Success(value) == [_tag |-> "Success", value |-> value]

Failure(cause) == [_tag |-> "Failure", cause |-> cause]

isFailure(e) == e._tag = "Failure"

Empty == [_tag |-> "Empty"]

Fail(error) == [_tag |-> "Fail", error |-> error]

Die(defect) == [_tag |-> "Die", defect |-> defect]

Interrupt(fiberId) == [_tag |-> "Interrupt", fiberId |-> fiberId]

Sequential(left, right) ==
    [_tag |-> "Sequential", left |-> left, right |-> right]

Parallel(left, right) ==
    [_tag |-> "Parallel", left |-> left, right |-> right]

InternalServerError(cause) ==
    ORPCError("handler", "INTERNAL_SERVER_ERROR",
              [NoOptions EXCEPT !.cause = cause])

\* onDie classifying a defect as onFail classifies a failure.
onDie_AsFailure(defect) ==
    IF isORPCTaggedError(defect) THEN toORPCError(defect)
    ELSE IF isORPCError(defect) THEN defect
    ELSE InternalServerError(defect)

onDie(defect) == InternalServerError(defect)

\* onFail without the final wrapping of unrecognized values.
onFail_Unwrapped(error) ==
    IF isORPCTaggedError(error) THEN toORPCError(error) ELSE error

\* onFail without the pass-through of plain ORPCErrors.
onFail_PlainWrapped(error) ==
    IF isORPCTaggedError(error) THEN toORPCError(error)
    ELSE InternalServerError(error)

onFail(error) ==
    IF isORPCTaggedError(error) THEN toORPCError(error)
    ELSE IF isORPCError(error) THEN error
    ELSE InternalServerError(error)

onInterrupt(fiberId) ==
    InternalServerError(ErrorValue(<<fiberId, " Interrupted">>))

\* onSequential keeping the right branch.
onSequential_Right(left, right) == right

onSequential(left, right) == left

onEmpty == InternalServerError(ErrorValue(<<"Unknown error">>))

\* onParallel keeping the right branch.
onParallel_Right(left, right) == right

onParallel(left, right) == left

\* Cause.match(cause, {...}) with the handler's six cases: a bottom-up
\* fold, so onSequential and onParallel receive both reduced branches.
RECURSIVE CauseMatch(_)
CauseMatch(cause) ==
    CASE cause._tag = "Empty" -> onEmpty
      [] cause._tag = "Fail" -> onFail(cause.error)
      [] cause._tag = "Die" -> onDie(cause.defect)
      [] cause._tag = "Interrupt" -> onInterrupt(cause.fiberId)
      [] cause._tag = "Sequential" ->
            onSequential(CauseMatch(cause.left), CauseMatch(cause.right))
      [] cause._tag = "Parallel" ->
            onParallel(CauseMatch(cause.left), CauseMatch(cause.right))

(***************************************************************************)
(* The handler EffectBuilder.effect() produces.                            *)
(***************************************************************************)
\* path.join(".")
RECURSIVE JoinPath(_)
JoinPath(path) ==
    IF Len(path) = 0 THEN <<>>
    ELSE IF Len(path) = 1 THEN path
    ELSE <<Head(path), ".">> \o JoinPath(Tail(path))

\* HandlerBegin running the computation without the call's signal.
HandlerBegin_NoSignal(d, o) ==
    LET eo == [context |-> o.context, input |-> o.input, path |-> o.path,
               procedure |-> o.procedure, signal |-> o.signal,
               lastEventId |-> o.lastEventId,
               errors |-> createEffectErrorConstructorMap(d.effectErrorMap)]
        name == IF d.spanConfig.kind # "Undefined" THEN <<d.spanConfig.name>>
                ELSE JoinPath(o.path)
        capture == IF d.spanConfig.kind # "Undefined"
                   THEN d.spanConfig.captureStackTrace
                   ELSE "effect() call site"
    IN  [effectOpts |-> eo,
         spanName |-> name,
         bodyCalls |-> <<eo>>,
         runCalls |-> <<[runtime |-> d.runtime, spanName |-> name,
                         captureStackTrace |-> capture,
                         signal |-> Undefined]>>]

\* HandlerBegin calling the body once directly and once through the resolver.
HandlerBegin_BodyTwice(d, o) ==
    LET eo == [context |-> o.context, input |-> o.input, path |-> o.path,
               procedure |-> o.procedure, signal |-> o.signal,
               lastEventId |-> o.lastEventId,
               errors |-> createEffectErrorConstructorMap(d.effectErrorMap)]
        name == IF d.spanConfig.kind # "Undefined" THEN <<d.spanConfig.name>>
                ELSE JoinPath(o.path)
        capture == IF d.spanConfig.kind # "Undefined"
                   THEN d.spanConfig.captureStackTrace
                   ELSE "effect() call site"
    IN  [effectOpts |-> eo,
         spanName |-> name,
         bodyCalls |-> <<eo, eo>>,
         runCalls |-> <<[runtime |-> d.runtime, spanName |-> name,
                         captureStackTrace |-> capture,
                         signal |-> o.signal]>>]

\* The handler up to its await: the options for the body, the span, the
\* call of the body and the call of runtime.runPromiseExit.
HandlerBegin(d, o) ==
    LET eo == [context |-> o.context, input |-> o.input, path |-> o.path,
               procedure |-> o.procedure, signal |-> o.signal,
               lastEventId |-> o.lastEventId,
               errors |-> createEffectErrorConstructorMap(d.effectErrorMap)]
        name == IF d.spanConfig.kind # "Undefined" THEN <<d.spanConfig.name>>
                ELSE JoinPath(o.path)
        capture == IF d.spanConfig.kind # "Undefined"
                   THEN d.spanConfig.captureStackTrace
                   ELSE "effect() call site"
    IN  [effectOpts |-> eo,
         spanName |-> name,
         bodyCalls |-> <<eo>>,
         runCalls |-> <<[runtime |-> d.runtime, spanName |-> name,
                         captureStackTrace |-> capture,
                         signal |-> o.signal]>>]

\* HandlerSettle without the final return of the exit's value.
HandlerSettle_NoReturn(e) ==
    IF isFailure(e)
    THEN <<[kind |-> "rejected", error |-> CauseMatch(e.cause)]>>
    ELSE <<[kind |-> "resolved", value |-> UndefinedValue]>>

\* The handler after its await: the value returned or the error thrown.
HandlerSettle(e) ==
    IF isFailure(e)
    THEN <<[kind |-> "rejected", error |-> CauseMatch(e.cause)]>>
    ELSE <<[kind |-> "resolved", value |-> e.value]>>

(***************************************************************************)
(* EffectBuilder and EffectDecoratedProcedure: the definition each chain   *)
(* method gives the object it returns.  A definition is a record; "kind"   *)
(* tells the class constructed from it.  A method that throws yields the   *)
(* thrown error instead of a definition.                                   *)
(***************************************************************************)
DEFAULT_CONFIG ==
    [initialInputValidationIndex |-> 0,
     initialOutputValidationIndex |-> 0,
     dedupeLeadingMiddlewares |-> TRUE]

\* fallbackConfig(name, value): value ?? DEFAULT_CONFIG[name]
fallbackConfig(name, value) ==
    IF value # <<>> THEN value[1] ELSE DEFAULT_CONFIG[name]

addMiddleware(middlewares, addition) == Append(middlewares, addition)

mergeMeta(meta1, meta2) == Spread(meta1, meta2)

mergeRoute(a, b) == Spread(a, b)

\* a ? `${a}${b}` : b, a path being the sequence of its segments.
mergePrefix(a, b) == IF a = <<>> THEN b ELSE a \o b

\* a ? [...a, ...b] : b
mergeTags(a, b) == IF a = <<>> THEN <<b>> ELSE <<a[1] \o b>>

\* decorateMiddleware(middleware).mapInput(mapInput), or the middleware.
MappedMiddleware(middleware, mapInput) ==
    IF mapInput # Undefined
    THEN [kind |-> "Middleware", name |-> middleware.name,
          mapInput |-> mapInput]
    ELSE middleware

\* new Builder({...}) of emptyBuilder(), as its "~orpc" definition.
emptyBuilder ==
    [config |-> [initialInputValidationIndex |-> <<>>,
                 initialOutputValidationIndex |-> <<>>,
                 dedupeLeadingMiddlewares |-> <<>>],
     route |-> Obj(<<>>),
     meta |-> Obj(<<>>),
     errorMap |-> Obj(<<>>),
     inputValidationIndex |-> fallbackConfig("initialInputValidationIndex", <<>>),
     outputValidationIndex |-> fallbackConfig("initialOutputValidationIndex", <<>>),
     middlewares |-> <<>>,
     dedupeLeadingMiddlewares |-> TRUE,
     inputSchema |-> Undefined,
     outputSchema |-> Undefined,
     prefix |-> <<>>,
     tags |-> <<>>]

\* new EffectBuilder(def) / new EffectDecoratedProcedure(def): "~effect".
EffectDef(kind, orpcDef, errorMap, effectErrorMap, runtime, spanConfig, handler) ==
    [kind |-> kind,
     config |-> orpcDef.config,
     route |-> orpcDef.route,
     meta |-> orpcDef.meta,
     errorMap |-> errorMap,
     effectErrorMap |-> effectErrorMap,
     inputValidationIndex |-> orpcDef.inputValidationIndex,
     outputValidationIndex |-> orpcDef.outputValidationIndex,
     middlewares |-> orpcDef.middlewares,
     dedupeLeadingMiddlewares |-> orpcDef.dedupeLeadingMiddlewares,
     inputSchema |-> orpcDef.inputSchema,
     outputSchema |-> orpcDef.outputSchema,
     prefix |-> orpcDef.prefix,
     tags |-> orpcDef.tags,
     runtime |-> runtime,
     spanConfig |-> spanConfig,
     handler |-> handler]

\* makeEffectORPC(runtime, builder) for a builder with definition orpcDef.
makeEffectORPC(runtime, orpcDef) ==
    LET errorMap == effectErrorMapToErrorMap(orpcDef.errorMap)
    IN  IF errorMap.kind = "Thrown" THEN errorMap
        ELSE EffectDef("Builder", orpcDef, errorMap, orpcDef.errorMap,
                       runtime, UndefinedValue, UndefinedValue)

\* errors() keeping the plain registry up to date by merging the projection
\* of the new entries into it.
BuilderErrors_Incremental(d, errors) ==
    LET newEffectErrorMap == Spread(d.effectErrorMap, errors)
        added == effectErrorMapToErrorMap(errors)
    IN  IF added.kind = "Thrown" THEN added
        ELSE [d EXCEPT !.errorMap = Spread(d.errorMap, added),
                       !.effectErrorMap = newEffectErrorMap]

\* errors() letting the entries already registered win over the new ones.
BuilderErrors_LeftBiased(d, errors) ==
    LET newEffectErrorMap == Spread(errors, d.effectErrorMap)
        errorMap == effectErrorMapToErrorMap(newEffectErrorMap)
    IN  IF errorMap.kind = "Thrown" THEN errorMap
        ELSE [d EXCEPT !.errorMap = errorMap,
                       !.effectErrorMap = newEffectErrorMap]

\* builder.errors(errors)
BuilderErrors(d, errors) ==
    LET newEffectErrorMap == Spread(d.effectErrorMap, errors)
        errorMap == effectErrorMapToErrorMap(newEffectErrorMap)
    IN  IF errorMap.kind = "Thrown" THEN errorMap
        ELSE [d EXCEPT !.errorMap = errorMap,
                       !.effectErrorMap = newEffectErrorMap]

\* builder.use(middleware, mapInput?)
BuilderUse(d, middleware, mapInput) ==
    [d EXCEPT !.middlewares =
                  addMiddleware(d.middlewares,
                                MappedMiddleware(middleware, mapInput))]

\* builder.meta(meta)
BuilderMeta(d, meta) == [d EXCEPT !.meta = mergeMeta(d.meta, meta)]

\* builder.route(route)
BuilderRoute(d, route) == [d EXCEPT !.route = mergeRoute(d.route, route)]

\* input() placing the validation at the configured initial index whatever
\* the number of middlewares.
BuilderInput_InitialIndexOnly(d, schema) ==
    [d EXCEPT !.inputSchema = schema,
              !.inputValidationIndex =
                  fallbackConfig("initialInputValidationIndex",
                                 d.config.initialInputValidationIndex)]

\* builder.input(schema)
BuilderInput(d, schema) ==
    [d EXCEPT !.inputSchema = schema,
              !.inputValidationIndex =
                  fallbackConfig("initialInputValidationIndex",
                                 d.config.initialInputValidationIndex)
                  + Len(d.middlewares)]

\* builder.output(schema)
BuilderOutput(d, schema) ==
    [d EXCEPT !.outputSchema = schema,
              !.outputValidationIndex =
                  fallbackConfig("initialOutputValidationIndex",
                                 d.config.initialOutputValidationIndex)
                  + Len(d.middlewares)]

\* traced() keeping the span configuration the builder already has.
BuilderTraced_KeepFirst(d, name) ==
    IF d.spanConfig.kind # "Undefined" THEN d
    ELSE [d EXCEPT !.spanConfig =
                       [kind |-> "SpanConfig", name |-> name,
                        captureStackTrace |-> "traced() call site"]]

\* builder.traced(spanName)
BuilderTraced(d, name) ==
    [d EXCEPT !.spanConfig =
                  [kind |-> "SpanConfig", name |-> name,
                   captureStackTrace |-> "traced() call site"]]

\* builder.$config(config)
BuilderConfig(d, config) ==
    LET inputValidationCount ==
            d.inputValidationIndex
            - fallbackConfig("initialInputValidationIndex",
                             d.config.initialInputValidationIndex)
        outputValidationCount ==
            d.outputValidationIndex
            - fallbackConfig("initialOutputValidationIndex",
                             d.config.initialOutputValidationIndex)
    IN  [d EXCEPT !.config = config,
                  !.dedupeLeadingMiddlewares =
                      fallbackConfig("dedupeLeadingMiddlewares",
                                     config.dedupeLeadingMiddlewares),
                  !.inputValidationIndex =
                      fallbackConfig("initialInputValidationIndex",
                                     config.initialInputValidationIndex)
                      + inputValidationCount,
                  !.outputValidationIndex =
                      fallbackConfig("initialOutputValidationIndex",
                                     config.initialOutputValidationIndex)
                      + outputValidationCount]

\* builder.$context()
BuilderContext(d) ==
    [d EXCEPT !.middlewares = <<>>,
              !.inputValidationIndex =
                  fallbackConfig("initialInputValidationIndex",
                                 d.config.initialInputValidationIndex),
              !.outputValidationIndex =
                  fallbackConfig("initialOutputValidationIndex",
                                 d.config.initialOutputValidationIndex)]

\* builder.$meta(initialMeta)
BuilderInitialMeta(d, initialMeta) == [d EXCEPT !.meta = initialMeta]

\* builder.$route(initialRoute)
BuilderInitialRoute(d, initialRoute) == [d EXCEPT !.route = initialRoute]

\* builder.$input(initialInputSchema)
BuilderInitialInput(d, initialInputSchema) ==
    [d EXCEPT !.inputSchema = initialInputSchema]

\* builder.prefix(prefix)
BuilderPrefix(d, prefix) ==
    [d EXCEPT !.prefix = mergePrefix(d.prefix, prefix)]

\* builder.tag(...tags)
BuilderTag(d, tags) == [d EXCEPT !.tags = mergeTags(d.tags, tags)]

\* builder.handler(handler)
BuilderHandler(d, handler) ==
    [d EXCEPT !.kind = "Procedure",
              !.handler = [kind |-> "Handler", fn |-> handler]]

\* builder.effect(effectFn): the handler closes over the builder's
\* runtime, span configuration and effect registry.
BuilderEffect(d, effectFn) ==
    [d EXCEPT !.kind = "Procedure",
              !.handler = [kind |-> "EffectHandler", fn |-> effectFn,
                           runtime |-> d.runtime,
                           spanConfig |-> d.spanConfig,
                           effectErrorMap |-> d.effectErrorMap]]

\* procedure.errors(errors)
ProcedureErrors(d, errors) ==
    LET newEffectErrorMap == Spread(d.effectErrorMap, errors)
        errorMap == effectErrorMapToErrorMap(newEffectErrorMap)
    IN  IF errorMap.kind = "Thrown" THEN errorMap
        ELSE [d EXCEPT !.effectErrorMap = newEffectErrorMap,
                       !.errorMap = errorMap]

\* meta() building the new procedure from the oRPC definition only, which
\* has no runtime.
ProcedureMeta_DropsRuntime(d, meta) ==
    [d EXCEPT !.meta = mergeMeta(d.meta, meta), !.runtime = UndefinedValue]

\* procedure.meta(meta)
ProcedureMeta(d, meta) == [d EXCEPT !.meta = mergeMeta(d.meta, meta)]

\* procedure.route(route)
ProcedureRoute(d, route) == [d EXCEPT !.route = mergeRoute(d.route, route)]

\* procedure.use(middleware, mapInput?)
ProcedureUse(d, middleware, mapInput) ==
    [d EXCEPT !.middlewares =
                  addMiddleware(d.middlewares,
                                MappedMiddleware(middleware, mapInput))]

(***************************************************************************)
(* Routers: builder.router(), builder.lazy() and enhanceEffectRouter.  A   *)
(* router is a plain object of routers, a procedure, or a lazy router.     *)
(***************************************************************************)
\* lazy(loader, meta): the router the loader gives is kept with the meta.
lazy(loaded, meta) == [kind |-> "Lazy", meta |-> meta, loaded |-> loaded]

isLazy(value) == value.kind = "Lazy"

isProcedure(value) == value.kind = "Procedure"

\* isStartWithMiddlewares(middlewares, compare) of @orpc/server
isStartWithMiddlewares(middlewares, compare) ==
    /\ Len(compare) <= Len(middlewares)
    /\ \A i \in 1..Len(compare) : middlewares[i] = compare[i]

\* mergeMiddlewares(first, second, { dedupeLeading }) of @orpc/server
mergeMiddlewares(first, second, dedupeLeading) ==
    IF dedupeLeading /\ isStartWithMiddlewares(second, first)
    THEN second
    ELSE first \o second

\* enhanceRoute(route, options) of @orpc/contract: the prefix goes in front
\* of the route's path and the tags in front of the route's tags.
enhanceRoute(route, options) ==
    LET prefixed == IF options.prefix # <<>> /\ HasKey(route, "path")
                    THEN Assign(route, "path",
                                options.prefix \o Get(route, "path"))
                    ELSE route
    IN  IF options.tags # <<>>
        THEN Assign(prefixed, "tags",
                    options.tags[1] \o (IF HasKey(prefixed, "tags")
                                        THEN Get(prefixed, "tags")
                                        ELSE <<>>))
        ELSE prefixed

\* The procedure branch shifting the validation indices by the number of
\* middlewares of the builder, whatever the merge added.
enhanceEffectProcedure_ShiftByBuilder(procedure, options) ==
    LET newMiddlewares ==
            mergeMiddlewares(options.middlewares, procedure.middlewares,
                             options.dedupeLeadingMiddlewares)
        newMiddlewareAdded == Len(options.middlewares)
        effectErrorMap == Spread(options.errorMap, procedure.errorMap)
        errorMap == effectErrorMapToErrorMap(effectErrorMap)
    IN  [procedure EXCEPT
            !.route = enhanceRoute(procedure.route, options),
            !.effectErrorMap = effectErrorMap,
            !.errorMap = errorMap,
            !.middlewares = newMiddlewares,
            !.inputValidationIndex = @ + newMiddlewareAdded,
            !.outputValidationIndex = @ + newMiddlewareAdded,
            !.runtime = options.runtime]

\* enhanceEffectRouter for a procedure: procedure is router["~orpc"].
enhanceEffectProcedure(procedure, options) ==
    LET newMiddlewares ==
            mergeMiddlewares(options.middlewares, procedure.middlewares,
                             options.dedupeLeadingMiddlewares)
        newMiddlewareAdded == Len(newMiddlewares) - Len(procedure.middlewares)
        effectErrorMap == Spread(options.errorMap, procedure.errorMap)
        errorMap == effectErrorMapToErrorMap(effectErrorMap)
    IN  [procedure EXCEPT
            !.route = enhanceRoute(procedure.route, options),
            !.effectErrorMap = effectErrorMap,
            !.errorMap = errorMap,
            !.middlewares = newMiddlewares,
            !.inputValidationIndex = @ + newMiddlewareAdded,
            !.outputValidationIndex = @ + newMiddlewareAdded,
            !.runtime = options.runtime]

\* enhanceEffectRouter(router, options).  The enhanced lazy router loads
\* the router and enhances what it loaded.
RECURSIVE enhanceEffectRouter(_, _)
enhanceEffectRouter(router, options) ==
    IF isLazy(router)
    THEN LET laziedMeta == router.meta
             enhancedPrefix ==
                 IF laziedMeta.prefix # <<>>
                 THEN mergePrefix(options.prefix, laziedMeta.prefix)
                 ELSE options.prefix
         IN  lazy(enhanceEffectRouter(router.loaded, options),
                  [laziedMeta EXCEPT !.prefix = enhancedPrefix])
    ELSE IF isProcedure(router)
    THEN enhanceEffectProcedure(router, options)
    ELSE Obj([i \in 1..Len(router.entries) |->
                 Entry(router.entries[i].key,
                       enhanceEffectRouter(router.entries[i].value, options))])

\* builder.router(router): the options are {...this["~effect"]}.
BuilderRouter(d, router) == enhanceEffectRouter(router, d)

\* builder.lazy(loader), for a loader that gives the router loaded.
BuilderLazy(d, loaded) ==
    enhanceEffectRouter(lazy(loaded, [prefix |-> <<>>]), d)

(***************************************************************************)
(* The environment: procedures, call options, and what a handler body and  *)
(* the runtime can produce.                                                *)
(***************************************************************************)
UserNotFoundError ==
    ORPCTaggedErrorBase("schema:userId", "UserNotFoundError",
                        "USER_NOT_FOUND_ERROR",
                        [status |-> <<>>, message |-> Undefined])

ValidationError ==
    ORPCTaggedErrorBase("schema:fields", "ValidationError", "BAD_REQUEST",
                        [status |-> <<>>, message |-> "Validation failed"])

EffectErrorMaps ==
    {Obj(<<Entry("USER_NOT_FOUND_ERROR", UserNotFoundError),
           Entry("BAD_REQUEST", ErrorMapItem(<<400>>, "Bad request", Undefined))>>)}

SpanConfigs ==
    {UndefinedValue,
     [kind |-> "SpanConfig", name |-> "custom.name",
      captureStackTrace |-> "traced() call site"]}

Runtimes ==
    {[kind |-> "ManagedRuntime", services |-> {}],
     [kind |-> "ManagedRuntime", services |-> {"UserService"}]}

\* The definitions of the procedures builder.effect(effectFn) can return.
ProcedureDefs ==
    [effectErrorMap : EffectErrorMaps, spanConfig : SpanConfigs,
     runtime : Runtimes]

NoCall == [kind |-> "Undefined"]

\* No chain is being built.
NoChain ==
    /\ builder = NoCall
    /\ receiver = NoCall
    /\ lastCall = NoCall
    /\ registered = <<>>
    /\ chain = <<>>
    /\ traces = <<>>

\* No body is using an errors map.
NoLookup ==
    /\ lookup = NoCall
    /\ built = NoCall
    /\ instances = <<>>
    /\ made = <<>>

\* No tagged error class is being defined.
NoTagged ==
    /\ tagChars = <<>>
    /\ factoryCall = NoCall
    /\ errorClass = NoCall
    /\ errorInstance = NoCall
    /\ conversions = <<>>

\* No object has been constructed.
NoTree ==
    /\ objects = <<>>
    /\ derived = NoCall

\* No router is being enhanced.
NoRouter ==
    /\ routerArg = NoCall
    /\ routerResult = NoCall

NoOthers == NoTagged /\ NoTree /\ calls = <<>> /\ NoRouter

\* The options the RPC layer passes to one call of the handler.
CallOptions ==
    [kind : {"Options"}, context : {"ctx"}, input : {"in1", "in2"},
     path : {<<"users", "getUser">>, <<"ping">>},
     procedure : {"procedure"}, signal : {Undefined, "signal"},
     lastEventId : {Undefined}]

ErrorOptions ==
    {NoOptions,
     [NoOptions EXCEPT !.message = "m1"],
     [NoOptions EXCEPT !.data = "d1"]}

ErrorKeys == {"USER_NOT_FOUND_ERROR", "BAD_REQUEST", "CONFLICT"}

\* Errors a body builds through the errors map it was given.
ErrorsFromMap(eo) ==
    {ConstructorMapCall(eo.errors, k, a) : k \in ErrorKeys, a \in ErrorOptions}

DirectTaggedOptions ==
    {[NoOptions EXCEPT !.defined = <<FALSE>>, !.data = "d1"],
     [NoOptions EXCEPT !.status = <<410>>, !.cause = StringValue("why")]}

\* Errors a body builds with the constructors directly.
ErrorsFromNew ==
    {NewTaggedError(class, a) :
        class \in {UserNotFoundError, ValidationError},
        a \in DirectTaggedOptions} \cup
    {ORPCError("body", "CONFLICT", NoOptions),
     ORPCError("body", "FORBIDDEN",
               [NoOptions EXCEPT !.defined = <<TRUE>>, !.status = <<401>>])}

OtherValues == {StringValue("boom"), ErrorValue(<<"oops">>), UndefinedValue}

FailValues(eo) == ErrorsFromMap(eo) \cup ErrorsFromNew \cup OtherValues

\* A defect is any thrown value: also an error object, also the usage
\* error of a tagged error constructor called with an illegal status.
DefectValues(eo) ==
    OtherValues \cup
    {ConstructorMapCall(eo.errors, "BAD_REQUEST", NoOptions),
     ConstructorMapCall(eo.errors, "USER_NOT_FOUND_ERROR", NoOptions),
     NewTaggedError(UserNotFoundError,
                    [NoOptions EXCEPT !.status = <<200>>]).error}

FiberIds == {"#0", "#1"}

\* The fiber the runtime forks for the run call.
RunFiber == "#0"

LeafCauses(eo) ==
    {Empty} \cup {Fail(e) : e \in FailValues(eo)}
            \cup {Die(d) : d \in DefectValues(eo)}
            \cup {Interrupt(f) : f \in FiberIds}

SuccessValues(eo, rt) ==
    {UndefinedValue,
     [kind |-> "Output", input |-> eo.input, services |-> rt.services]}

\* One failure of each shape, for the combined causes.
ShapeCauses(eo) ==
    {Empty,
     Fail(ConstructorMapCall(eo.errors, "USER_NOT_FOUND_ERROR",
                             [NoOptions EXCEPT !.data = "d1"])),
     Fail(ConstructorMapCall(eo.errors, "BAD_REQUEST", NoOptions)),
     Fail(StringValue("boom")),
     Die(ConstructorMapCall(eo.errors, "BAD_REQUEST", NoOptions)),
     Die(ConstructorMapCall(eo.errors, "USER_NOT_FOUND_ERROR", NoOptions)),
     Die(ErrorValue(<<"oops">>)),
     Interrupt("#1")}

Combine(ls, rs) ==
    {Sequential(l, r) : l \in ls, r \in rs} \cup
    {Parallel(l, r) : l \in ls, r \in rs}

\* The causes with exactly n Sequential/Parallel nodes over the leaves.
RECURSIVE CausesOfSize(_, _)
CausesOfSize(leaves, n) ==
    IF n = 0 THEN leaves
    ELSE UNION {Combine(CausesOfSize(leaves, i), CausesOfSize(leaves, n - 1 - i)) :
                    i \in 0..(n - 1)}

CausesUpTo(leaves, n) == UNION {CausesOfSize(leaves, i) : i \in 0..n}

\* The exits of one run of the body's computation.
BodyExits(eo, rt) ==
    {Success(v) : v \in SuccessValues(eo, rt)} \cup
    {Failure(c) : c \in LeafCauses(eo) \cup
                        Combine(ShapeCauses(eo), ShapeCauses(eo))}

(***************************************************************************)
(* Invocations of one procedure's handler, one after the other.            *)
(***************************************************************************)
Init ==
    /\ def \in ProcedureDefs
    /\ NoChain
    /\ NoLookup
    /\ NoOthers
    /\ pc = "idle"
    /\ opts = NoCall
    /\ effectOpts = NoCall
    /\ spanName = <<>>
    /\ bodyCalls = <<>>
    /\ runCalls = <<>>
    /\ aborted = FALSE
    /\ interrupted = FALSE
    /\ exit = NoCall
    /\ outcomes = <<>>

\* The RPC layer calls the handler, which runs up to its await.
Invoke(o) ==
    /\ pc = "idle"
    /\ LET h == HandlerBegin(def, o)
       IN  /\ effectOpts' = h.effectOpts
           /\ spanName' = h.spanName
           /\ bodyCalls' = h.bodyCalls
           /\ runCalls' = h.runCalls
    /\ opts' = o
    /\ pc' = "running"
    /\ UNCHANGED <<def, aborted, interrupted, exit, outcomes>>
    /\ UNCHANGED <<builderVars, errorsVars, otherVars>>

\* The caller triggers the call's abort signal while the run is in flight.
Abort ==
    /\ pc = "running"
    /\ opts.signal # Undefined
    /\ ~aborted
    /\ aborted' = TRUE
    /\ UNCHANGED <<def, pc, opts, effectOpts, spanName, bodyCalls, runCalls,
                   interrupted, exit, outcomes>>
    /\ UNCHANGED <<builderVars, errorsVars, otherVars>>

\* The runtime interrupts the fiber of a run whose signal has been triggered.
RuntimeInterrupt ==
    /\ pc = "running"
    /\ aborted
    /\ runCalls[1].signal = opts.signal
    /\ exit' = Failure(Interrupt(RunFiber))
    /\ interrupted' = TRUE
    /\ pc' = "exited"
    /\ UNCHANGED <<def, opts, effectOpts, spanName, bodyCalls, runCalls,
                   aborted, outcomes>>
    /\ UNCHANGED <<builderVars, errorsVars, otherVars>>

\* The computation reaches its own exit and the run's promise resolves.
RuntimeExit ==
    /\ pc = "running"
    /\ exit' \in BodyExits(effectOpts, def.runtime)
    /\ pc' = "exited"
    /\ UNCHANGED <<def, opts, effectOpts, spanName, bodyCalls, runCalls,
                   aborted, interrupted, outcomes>>
    /\ UNCHANGED <<builderVars, errorsVars, otherVars>>

\* The handler resumes after its await and returns or throws.
Settle ==
    /\ pc = "exited"
    /\ outcomes' = HandlerSettle(exit)
    /\ pc' = "settled"
    /\ UNCHANGED <<def, opts, effectOpts, spanName, bodyCalls, runCalls,
                   aborted, interrupted, exit>>
    /\ UNCHANGED <<builderVars, errorsVars, otherVars>>

\* The call is over; the handler can be called again.
Return ==
    /\ pc = "settled"
    /\ pc' = "idle"
    /\ opts' = NoCall
    /\ effectOpts' = NoCall
    /\ spanName' = <<>>
    /\ bodyCalls' = <<>>
    /\ runCalls' = <<>>
    /\ aborted' = FALSE
    /\ interrupted' = FALSE
    /\ exit' = NoCall
    /\ outcomes' = <<>>
    /\ UNCHANGED def
    /\ UNCHANGED <<builderVars, errorsVars, otherVars>>

Next ==
    \/ \E o \in CallOptions : Invoke(o)
    \/ Abort
    \/ RuntimeInterrupt
    \/ RuntimeExit
    \/ Settle
    \/ Return

Spec == Init /\ [][Next]_vars

(***************************************************************************)
(* The handler after its await, applied to every exit whose cause has at   *)
(* most MaxCombine Sequential/Parallel nodes.                              *)
(***************************************************************************)
CauseCall ==
    [kind |-> "Options", context |-> "ctx", input |-> "in1",
     path |-> <<"ping">>, procedure |-> "procedure", signal |-> Undefined,
     lastEventId |-> Undefined]

RECURSIVE CauseSize(_)
CauseSize(cause) ==
    IF cause._tag \in {"Sequential", "Parallel"}
    THEN 1 + CauseSize(cause.left) + CauseSize(cause.right)
    ELSE 0

\* The exits under test start from the successes and the one-leaf causes.
CauseInit ==
    /\ def \in ProcedureDefs
    /\ NoChain
    /\ NoLookup
    /\ NoOthers
    /\ def.spanConfig = UndefinedValue
    /\ def.runtime.services = {}
    /\ opts = CauseCall
    /\ LET h == HandlerBegin(def, opts)
       IN  /\ effectOpts = h.effectOpts
           /\ spanName = h.spanName
           /\ bodyCalls = h.bodyCalls
           /\ runCalls = h.runCalls
           /\ exit \in {Success(v) : v \in SuccessValues(h.effectOpts, def.runtime)}
                  \cup {Failure(c) : c \in ShapeCauses(h.effectOpts)}
    /\ pc = "exited"
    /\ aborted = FALSE
    /\ interrupted = FALSE
    /\ outcomes = <<>>

\* The exit under test becomes a failure combined with one more cause, on
\* either side, sequentially or in parallel.
CauseGrow ==
    /\ pc = "exited"
    /\ isFailure(exit)
    /\ CauseSize(exit.cause) < MaxCombine
    /\ \E c \in CausesUpTo(ShapeCauses(effectOpts),
                           MaxCombine - 1 - CauseSize(exit.cause)) :
          exit' \in {Failure(x) : x \in Combine({exit.cause}, {c})
                                        \cup Combine({c}, {exit.cause})}
    /\ UNCHANGED <<def, pc, opts, effectOpts, spanName, bodyCalls, runCalls,
                   aborted, interrupted, outcomes>>
    /\ UNCHANGED <<builderVars, errorsVars, otherVars>>

CauseNext == CauseGrow \/ Settle

CauseSpec == CauseInit /\ [][CauseNext]_vars

(***************************************************************************)
(* Properties of the handler's outcome.                                    *)
(***************************************************************************)
TaggedClasses == {UserNotFoundError, ValidationError}

Settled == pc = "settled"

Rejected == Len(outcomes) = 1 /\ outcomes[1].kind = "rejected"

Resolved == Len(outcomes) = 1 /\ outcomes[1].kind = "resolved"

ThrownError == outcomes[1].error

FailedWith == exit.cause.error

TypedFailure == isFailure(exit) /\ exit.cause._tag = "Fail"

Defect == isFailure(exit) /\ exit.cause._tag = "Die"

Combined == isFailure(exit) /\ exit.cause._tag \in {"Sequential", "Parallel"}

IsInternalError(e) ==
    /\ isORPCError(e)
    /\ e.code = "INTERNAL_SERVER_ERROR"
    /\ e.status = 500
    /\ e.defined = FALSE

RECURSIVE LeftmostLeaf(_)
LeftmostLeaf(cause) ==
    IF cause._tag \in {"Sequential", "Parallel"}
    THEN LeftmostLeaf(cause.left)
    ELSE cause

\* C1: every exit of the computation, whatever the shape and nesting of its
\* cause, ends the call in exactly one outcome: the call resolves with the
\* success value, or it rejects with a value that is an ORPCError.
C1_ExactlyOneOutcome ==
    Settled =>
        /\ Len(outcomes) = 1
        /\ IF isFailure(exit)
           THEN outcomes[1].kind = "rejected" /\ isORPCError(ThrownError)
           ELSE outcomes[1].kind = "resolved" /\ outcomes[1].value = exit.value

C1_Witness ==
    /\ Settled
    /\ isFailure(exit)
    /\ CauseSize(exit.cause) = 2
    /\ exit.cause.left._tag = "Parallel"
    /\ LeftmostLeaf(exit.cause)._tag = "Fail"
    /\ LeftmostLeaf(exit.cause).error.kind = "String"
    /\ Rejected
    /\ isORPCError(ThrownError)

\* C2: a typed failure with a tagged error instance rejects with the
\* ORPCError that instance owns, whose code is the class's code and whose
\* status, message, data and defined flag are the instance's.
C2_TaggedFailureProjected ==
    (Settled /\ TypedFailure /\ isORPCTaggedError(FailedWith)) =>
        /\ Rejected
        /\ ThrownError = FailedWith.embedded
        /\ ThrownError.ref = "embedded"
        /\ isORPCError(ThrownError)
        /\ \E class \in TaggedClasses :
              class._tag = FailedWith._tag /\ ThrownError.code = class.code
        /\ ThrownError.status = FailedWith.status
        /\ ThrownError.message = FailedWith.message
        /\ ThrownError.data = FailedWith.data
        /\ ThrownError.defined = FailedWith.defined

C2_Witness ==
    /\ Settled
    /\ TypedFailure
    /\ isORPCTaggedError(FailedWith)
    /\ FailedWith._tag = "UserNotFoundError"
    /\ FailedWith.data = "d1"
    /\ FailedWith.defined
    /\ Rejected
    /\ ThrownError.code = "USER_NOT_FOUND_ERROR"
    /\ ThrownError.data = "d1"

\* C3: a defect d rejects with INTERNAL_SERVER_ERROR whose cause is d, also
\* when d is itself an ORPCError or a tagged error instance.
C3_DefectWrapped ==
    (Settled /\ Defect) =>
        /\ Rejected
        /\ IsInternalError(ThrownError)
        /\ ThrownError.ref = "handler"
        /\ ThrownError.cause = exit.cause.defect

C3_Witness ==
    /\ Settled
    /\ Defect
    /\ isORPCError(exit.cause.defect)
    /\ exit.cause.defect.code = "BAD_REQUEST"
    /\ Rejected
    /\ ThrownError.code = "INTERNAL_SERVER_ERROR"

\* C4: a typed failure with an ORPCError that is not a tagged instance
\* rejects with that same object; a typed failure of any other shape rejects
\* with INTERNAL_SERVER_ERROR whose cause is the value.
C4_PlainPassedOtherWrapped ==
    (Settled /\ TypedFailure /\ ~isORPCTaggedError(FailedWith)) =>
        /\ Rejected
        /\ IF isORPCError(FailedWith)
           THEN ThrownError = FailedWith
           ELSE /\ IsInternalError(ThrownError)
                /\ ThrownError.ref = "handler"
                /\ ThrownError.cause = FailedWith

C4_Witness ==
    /\ Settled
    /\ TypedFailure
    /\ isORPCError(FailedWith)
    /\ FailedWith.code = "BAD_REQUEST"
    /\ FailedWith.message = "m1"
    /\ FailedWith.defined
    /\ Rejected
    /\ ThrownError.ref = "body"
    /\ ThrownError.message = "m1"
\* C5: for a Sequential or Parallel cause the error thrown is the one the
\* classification yields for the left branch alone, whatever the right
\* branch is.
C5_LeftBranchDecides ==
    (Settled /\ Combined) =>
        /\ Rejected
        /\ ThrownError = CauseMatch(exit.cause.left)
        /\ \A r \in ShapeCauses(effectOpts) :
              HandlerSettle(Failure([exit.cause EXCEPT !.right = r])) = outcomes

C5_Witness ==
    /\ Settled
    /\ Combined
    /\ exit.cause._tag = "Parallel"
    /\ exit.cause.left._tag = "Sequential"
    /\ exit.cause.left.left._tag = "Interrupt"
    /\ exit.cause.left.right._tag = "Fail"
    /\ exit.cause.right._tag = "Fail"
    /\ isORPCTaggedError(exit.cause.right.error)
    /\ Rejected
    /\ ThrownError.code = "INTERNAL_SERVER_ERROR"

ModeledFailure(cause) ==
    /\ cause._tag = "Fail"
    /\ isORPCTaggedError(cause.error) \/ isORPCError(cause.error)

\* C6 as stated: a defect, an interruption, an unrecognized failure value,
\* a combined cause or an empty cause always rejects with
\* INTERNAL_SERVER_ERROR.
C6_UnmodeledAlwaysInternal ==
    (Settled /\ isFailure(exit) /\ ~ModeledFailure(exit.cause)) =>
        Rejected /\ IsInternalError(ThrownError)

\* C6 amended: a failure whose cause is a defect, an interruption, an
\* unrecognized failure value or an empty cause, or a combined cause whose
\* leftmost leaf is one of these, rejects with INTERNAL_SERVER_ERROR; a
\* combined cause whose leftmost leaf is a typed failure with a tagged error
\* instance or an ORPCError rejects with that leaf's error.
C6_UnmodeledInternalByLeftmostLeaf ==
    (Settled /\ isFailure(exit)) =>
        LET leaf == LeftmostLeaf(exit.cause)
        IN  /\ Rejected
            /\ IF ModeledFailure(leaf)
               THEN ThrownError = IF isORPCTaggedError(leaf.error)
                                  THEN leaf.error.embedded
                                  ELSE leaf.error
               ELSE IsInternalError(ThrownError) /\ ThrownError.ref = "handler"

C6_Witness ==
    /\ Settled
    /\ Combined
    /\ CauseSize(exit.cause) = 2
    /\ exit.cause.left._tag = "Sequential"
    /\ exit.cause.left.left._tag = "Die"
    /\ isORPCError(exit.cause.left.left.defect)
    /\ ModeledFailure(exit.cause.right)
    /\ Rejected
    /\ IsInternalError(ThrownError)

\* C7 as stated: every tagged error instance or ORPCError on the failure
\* channel rejects with an ORPCError whose defined flag is true.
C7_ModeledAlwaysDefined ==
    (Settled /\ TypedFailure /\ ModeledFailure(exit.cause)) =>
        Rejected /\ ThrownError.defined = TRUE

\* C7 amended: a tagged error instance or ORPCError on the failure channel
\* rejects with an ORPCError whose defined flag is the failure value's own:
\* true for a tagged instance unless it was constructed with defined false,
\* true for an error built through the errors map under a registered key,
\* false for one built under an unregistered key, and for a directly
\* constructed ORPCError the flag its constructor was given.
C7_DefinedFlagCarried ==
    (Settled /\ TypedFailure /\ ModeledFailure(exit.cause)) =>
        /\ Rejected
        /\ isORPCError(ThrownError)
        /\ ThrownError.defined = FailedWith.defined
        /\ \A k \in ErrorKeys, a \in ErrorOptions :
              FailedWith = ConstructorMapCall(effectOpts.errors, k, a) =>
                  ThrownError.defined =
                      (Get(def.effectErrorMap, k).kind # "Undefined")
        /\ \A class \in TaggedClasses, a \in DirectTaggedOptions :
              FailedWith = NewTaggedError(class, a) =>
                  ThrownError.defined = (a.defined # <<FALSE>>)

C7_Witness ==
    /\ Settled
    /\ TypedFailure
    /\ FailedWith = ConstructorMapCall(effectOpts.errors, "BAD_REQUEST",
                                       NoOptions)
    /\ Rejected
    /\ ThrownError.code = "BAD_REQUEST"
    /\ ThrownError.defined

\* C8: a run interrupted because the call's signal was triggered rejects
\* with INTERNAL_SERVER_ERROR whose cause names the interrupted fiber and
\* never resolves; the run call is given the call's own signal.
C8_AbortRejects ==
    /\ pc # "idle" =>
          Len(runCalls) = 1 /\ runCalls[1].signal = opts.signal
    /\ interrupted => ~Resolved
    /\ (interrupted /\ Settled) =>
          /\ Rejected
          /\ IsInternalError(ThrownError)
          /\ ThrownError.cause = ErrorValue(<<RunFiber, " Interrupted">>)

C8_Witness ==
    /\ Settled
    /\ opts.signal = "signal"
    /\ aborted
    /\ interrupted
    /\ Rejected
    /\ ThrownError.cause = ErrorValue(<<"#0", " Interrupted">>)

\* C9: when the computation succeeds with v the call resolves with v, for
\* every input, path, span configuration and runtime.
C9_SuccessResolves ==
    (Settled /\ ~isFailure(exit)) =>
        /\ exit._tag = "Success"
        /\ outcomes = <<[kind |-> "resolved", value |-> exit.value]>>

C9_Witness ==
    /\ Settled
    /\ def.spanConfig # UndefinedValue
    /\ def.runtime.services = {"UserService"}
    /\ opts.input = "in2"
    /\ exit = Success([kind |-> "Output", input |-> "in2",
                       services |-> {"UserService"}])
    /\ Resolved
    /\ outcomes[1].value.input = "in2"

\* C10: in one call the body is called once and the computation is run
\* once, a failed run is not run again, and a failed call throws one error.
C10_OnceEach ==
    /\ pc = "idle" => bodyCalls = <<>> /\ runCalls = <<>> /\ outcomes = <<>>
    /\ pc # "idle" =>
          /\ bodyCalls = <<effectOpts>>
          /\ Len(runCalls) = 1
    /\ pc \in {"running", "exited"} => outcomes = <<>>
    /\ Settled =>
          /\ Len(outcomes) = 1
          /\ isFailure(exit) <=> outcomes[1].kind = "rejected"

C10_Witness ==
    /\ Settled
    /\ TypedFailure
    /\ Len(bodyCalls) = 1
    /\ Len(runCalls) = 1
    /\ Rejected

(***************************************************************************)
(* Chains of builder and procedure method calls from makeEffectORPC.       *)
(***************************************************************************)
\* Largest number of method calls in a chain.
MaxChain == 3

PermissionDenied ==
    ORPCTaggedErrorBase(Undefined, "PermissionDenied", "FORBIDDEN",
                        [status |-> <<>>, message |-> Undefined])

CustomStatusError ==
    ORPCTaggedErrorBase(Undefined, "CustomStatusError",
                        "INTERNAL_SERVER_ERROR",
                        [status |-> <<503>>, message |-> "Service unavailable"])

\* A class whose default status is not an error status.
SuccessStatusError ==
    ORPCTaggedErrorBase(Undefined, "SuccessStatusError", "SUCCESS_STATUS_ERROR",
                        [status |-> <<200>>, message |-> Undefined])

\* The registries given to errors(): plain templates only, tagged classes
\* only, a mix that overrides keys of the others, the empty registry, a
\* class under a key that is not its code next to an undefined entry, and
\* a class that cannot be constructed from its defaults.
RegistryArgs ==
    {Obj(<<Entry("BAD_REQUEST", ErrorMapItem(<<400>>, "Bad request", Undefined))>>),
     Obj(<<Entry("USER_NOT_FOUND_ERROR", UserNotFoundError),
           Entry("FORBIDDEN", PermissionDenied)>>),
     Obj(<<Entry("BAD_REQUEST", ValidationError),
           Entry("USER_NOT_FOUND", ErrorMapItem(<<>>, "Not found", Undefined))>>),
     Obj(<<>>),
     Obj(<<Entry("USER_NOT_FOUND", UserNotFoundError),
           Entry("FORBIDDEN", UndefinedValue)>>),
     Obj(<<Entry("TEAPOT", SuccessStatusError)>>)}

AuthMiddleware == [kind |-> "Middleware", name |-> "auth"]

\* The definition of os.$config(...).use(auth).errors(...), an oRPC builder
\* configured before it is wrapped.
ConfiguredBuilder ==
    [emptyBuilder EXCEPT
        !.config = [initialInputValidationIndex |-> <<11>>,
                    initialOutputValidationIndex |-> <<22>>,
                    dedupeLeadingMiddlewares |-> <<>>],
        !.inputValidationIndex = 11,
        !.outputValidationIndex = 22,
        !.middlewares = <<AuthMiddleware>>,
        !.errorMap = Obj(<<Entry("NOT_FOUND",
                                 ErrorMapItem(<<404>>, Undefined, Undefined))>>)]

BaseBuilders == {emptyBuilder, ConfiguredBuilder}

BuilderConfigs ==
    {[initialInputValidationIndex |-> <<5>>,
      initialOutputValidationIndex |-> <<>>,
      dedupeLeadingMiddlewares |-> <<FALSE>>]}

Metas == {Obj(<<Entry("auth", "required")>>)}

Routes == {Obj(<<Entry("method", "GET")>>)}

\* One method call of the chain: the receiver is the object reached so far;
\* a call that throws leaves the chain at its receiver.
Chained(method, arg, next) ==
    /\ builder # NoCall
    /\ pc = "chain"
    /\ Len(chain) < MaxChain
    /\ receiver' = builder
    /\ lastCall' = [method |-> method, arg |-> arg,
                    threw |-> next.kind = "Thrown"]
    /\ builder' = IF next.kind = "Thrown" THEN builder ELSE next
    /\ registered' = IF method = "errors" /\ next.kind # "Thrown"
                     THEN Append(registered, arg)
                     ELSE registered
    /\ chain' = Append(chain, method)
    /\ traces' = IF method = "traced" THEN Append(traces, arg) ELSE traces
    /\ UNCHANGED <<handlerVars, errorsVars, otherVars>>

IsBuilder == builder # NoCall /\ builder.kind = "Builder"

IsProcedure == builder # NoCall /\ builder.kind = "Procedure"

ChainInit ==
    /\ def = NoCall
    /\ pc = "chain"
    /\ opts = NoCall
    /\ effectOpts = NoCall
    /\ spanName = <<>>
    /\ bodyCalls = <<>>
    /\ runCalls = <<>>
    /\ aborted = FALSE
    /\ interrupted = FALSE
    /\ exit = NoCall
    /\ outcomes = <<>>
    /\ NoLookup
    /\ NoOthers
    /\ \E rt \in Runtimes, b \in BaseBuilders :
          builder = makeEffectORPC(rt, b)
    /\ receiver = NoCall
    /\ lastCall = NoCall
    /\ registered = <<builder.effectErrorMap>>
    /\ chain = <<>>
    /\ traces = <<>>

CallErrors(errors) ==
    /\ IsBuilder
    /\ Chained("errors", errors, BuilderErrors(builder, errors))

CallUse(middleware, mapInput) ==
    /\ IsBuilder
    /\ Chained("use", MappedMiddleware(middleware, mapInput),
               BuilderUse(builder, middleware, mapInput))

CallMeta(meta) ==
    /\ IsBuilder
    /\ Chained("meta", meta, BuilderMeta(builder, meta))

CallRoute(route) ==
    /\ IsBuilder
    /\ Chained("route", route, BuilderRoute(builder, route))

CallInput(schema) ==
    /\ IsBuilder
    /\ Chained("input", schema, BuilderInput(builder, schema))

CallOutput(schema) ==
    /\ IsBuilder
    /\ Chained("output", schema, BuilderOutput(builder, schema))

CallTraced(name) ==
    /\ IsBuilder
    /\ Chained("traced", name, BuilderTraced(builder, name))

CallConfig(config) ==
    /\ IsBuilder
    /\ Chained("$config", config, BuilderConfig(builder, config))

CallContext ==
    /\ IsBuilder
    /\ Chained("$context", Undefined, BuilderContext(builder))

CallInitialMeta(initialMeta) ==
    /\ IsBuilder
    /\ Chained("$meta", initialMeta, BuilderInitialMeta(builder, initialMeta))

CallInitialRoute(initialRoute) ==
    /\ IsBuilder
    /\ Chained("$route", initialRoute,
               BuilderInitialRoute(builder, initialRoute))

CallInitialInput(initialInputSchema) ==
    /\ IsBuilder
    /\ Chained("$input", initialInputSchema,
               BuilderInitialInput(builder, initialInputSchema))

CallPrefix(prefix) ==
    /\ IsBuilder
    /\ Chained("prefix", prefix, BuilderPrefix(builder, prefix))

CallTag(tags) ==
    /\ IsBuilder
    /\ Chained("tag", tags, BuilderTag(builder, tags))

CallHandler(handler) ==
    /\ IsBuilder
    /\ Chained("handler", handler, BuilderHandler(builder, handler))

CallEffect(effectFn) ==
    /\ IsBuilder
    /\ Chained("effect", effectFn, BuilderEffect(builder, effectFn))

CallProcedureErrors(errors) ==
    /\ IsProcedure
    /\ Chained("errors", errors, ProcedureErrors(builder, errors))

CallProcedureMeta(meta) ==
    /\ IsProcedure
    /\ Chained("meta", meta, ProcedureMeta(builder, meta))

CallProcedureRoute(route) ==
    /\ IsProcedure
    /\ Chained("route", route, ProcedureRoute(builder, route))

CallProcedureUse(middleware, mapInput) ==
    /\ IsProcedure
    /\ Chained("use", MappedMiddleware(middleware, mapInput),
               ProcedureUse(builder, middleware, mapInput))

\* The names given to traced().
SpanNames == {"custom.name", "other.name"}

\* The calls of the handler of a procedure a chain has reached.
SpanCalls == {o \in CallOptions : o.input = "in1" /\ o.signal = Undefined}

\* The RPC layer calls the handler effect() gave the procedure the chain
\* has reached; the handler runs up to its await.
ChainInvoke(o) ==
    /\ pc = "chain"
    /\ IsProcedure
    /\ builder.handler.kind = "EffectHandler"
    /\ LET h == HandlerBegin(builder.handler, o)
       IN  /\ effectOpts' = h.effectOpts
           /\ spanName' = h.spanName
           /\ bodyCalls' = h.bodyCalls
           /\ runCalls' = h.runCalls
    /\ def' = builder.handler
    /\ opts' = o
    /\ pc' = "running"
    /\ UNCHANGED <<aborted, interrupted, exit, outcomes>>
    /\ UNCHANGED <<builderVars, errorsVars, otherVars>>

ChainNext ==
    \/ \E errors \in RegistryArgs : CallErrors(errors)
    \/ \E mapInput \in {Undefined, "mapInput"} : CallUse(AuthMiddleware, mapInput)
    \/ \E meta \in Metas : CallMeta(meta)
    \/ \E route \in Routes : CallRoute(route)
    \/ CallInput("schema:input")
    \/ CallOutput("schema:output")
    \/ \E name \in SpanNames : CallTraced(name)
    \/ \E config \in BuilderConfigs : CallConfig(config)
    \/ CallContext
    \/ \E initialMeta \in Metas : CallInitialMeta(initialMeta)
    \/ \E initialRoute \in Routes : CallInitialRoute(initialRoute)
    \/ CallInitialInput("schema:initial")
    \/ CallPrefix(<<"/api">>)
    \/ CallTag(<<"users">>)
    \/ CallHandler("handler")
    \/ CallEffect("effectFn")
    \/ \E errors \in RegistryArgs : CallProcedureErrors(errors)
    \/ \E meta \in Metas : CallProcedureMeta(meta)
    \/ \E route \in Routes : CallProcedureRoute(route)
    \/ \E mapInput \in {Undefined, "mapInput"} :
          CallProcedureUse(AuthMiddleware, mapInput)
    \/ \E o \in SpanCalls : ChainInvoke(o)

ChainSpec == ChainInit /\ [][ChainNext]_vars

(***************************************************************************)
(* Properties of the registries along a chain.                             *)
(***************************************************************************)
\* C11: in every builder reached from makeEffectORPC by chain methods, and
\* in every procedure reached from it by effect()/handler() and then
\* errors/meta/route/use, the plain errorMap of the definition is
\* effectErrorMapToErrorMap applied to its effectErrorMap.
C11_PlainRegistryIsProjection ==
    builder # NoCall =>
        builder.errorMap = effectErrorMapToErrorMap(builder.effectErrorMap)

C11_Witness ==
    /\ IsProcedure
    /\ chain = <<"errors", "effect", "errors">>
    /\ ~lastCall.threw
    /\ Len(registered) = 3
    /\ HasKey(builder.effectErrorMap, "USER_NOT_FOUND")
    /\ HasKey(builder.effectErrorMap, "BAD_REQUEST")
    /\ builder.errorMap # receiver.errorMap

\* The registry the last errors() call projected: the receiver's effect
\* registry merged with the call's argument.
ErrorsCalled == chain # <<>> /\ lastCall.method = "errors"

ProjectedRegistry == Spread(receiver.effectErrorMap, lastCall.arg)

EntriesOf(obj) == {obj.entries[i] : i \in 1..Len(obj.entries)}

ClassEntries(obj) ==
    {e \in EntriesOf(obj) : e.value.kind = "TaggedClass"}

TemplateEntries(obj) ==
    {e \in EntriesOf(obj) : e.value.kind = "Template"}

\* The class can be constructed without arguments.
Constructible(class) == NewTaggedError(class, NoOptions).kind # "Thrown"

\* C12 as stated: effectErrorMapToErrorMap returns, for every registry, a
\* plain registry with exactly the key set of its input and no undefined
\* entry.
C12_SameKeySet ==
    ErrorsCalled =>
        LET plain == effectErrorMapToErrorMap(ProjectedRegistry)
        IN  /\ plain.kind = "Object"
            /\ Keys(plain) = Keys(ProjectedRegistry)
            /\ \A k \in Keys(plain) : Get(plain, k).kind # "Undefined"

\* C12 amended: when every tagged class of the registry can be constructed
\* from its defaults, effectErrorMapToErrorMap returns a plain registry
\* whose keys are the keys of the plain templates and the codes of the
\* tagged classes, with no undefined entry; undefined entries are skipped.
\* Its key set is the input's when no entry is undefined and every class
\* is registered under its own code.  When some class cannot be
\* constructed from its defaults, it throws the invalid-status error.
C12_KeysAreTemplateKeysAndClassCodes ==
    ErrorsCalled =>
        LET registry == ProjectedRegistry
            plain == effectErrorMapToErrorMap(registry)
        IN  IF \A e \in ClassEntries(registry) : Constructible(e.value)
            THEN /\ plain.kind = "Object"
                 /\ Keys(plain) =
                        {e.key : e \in TemplateEntries(registry)} \cup
                        {e.value.code : e \in ClassEntries(registry)}
                 /\ \A k \in Keys(plain) : Get(plain, k).kind = "Template"
                 /\ ((\A e \in EntriesOf(registry) :
                         /\ e.value.kind # "Undefined"
                         /\ e.value.kind = "TaggedClass" => e.key = e.value.code)
                     => Keys(plain) = Keys(registry))
                 /\ ~lastCall.threw
                 /\ builder.errorMap = plain
            ELSE /\ plain = Thrown(InvalidStatusError)
                 /\ lastCall.threw

C12_Witness ==
    /\ ErrorsCalled
    /\ ~lastCall.threw
    /\ Keys(ProjectedRegistry) = {"BAD_REQUEST", "USER_NOT_FOUND", "FORBIDDEN"}
    /\ Get(ProjectedRegistry, "USER_NOT_FOUND") = UserNotFoundError
    /\ Keys(builder.errorMap) = {"BAD_REQUEST", "USER_NOT_FOUND_ERROR"}

\* The key an entry's template gets in the plain registry.
ResultKey(e) ==
    IF e.value.kind = "TaggedClass" THEN e.value.code ELSE e.key

\* No other entry of the registry lands on the same key of the result.
Unshadowed(registry, e) ==
    \A f \in ClassEntries(registry) \cup TemplateEntries(registry) :
        f # e => ResultKey(f) # ResultKey(e)

\* C13 as stated: the template effectErrorMapToErrorMap produces for a
\* tagged class has the status and message of an instance constructed
\* without arguments and, as its data schema, the schema the class was
\* created with; a plain template is passed through unchanged.
C13_TemplateOfClass ==
    (ErrorsCalled /\ ~lastCall.threw) =>
        LET registry == ProjectedRegistry
            plain == effectErrorMapToErrorMap(registry)
        IN  /\ \A e \in ClassEntries(registry) :
                  Unshadowed(registry, e) =>
                      LET instance == NewTaggedError(e.value, NoOptions)
                          template == Get(plain, e.value.code)
                      IN  /\ template.status = <<instance.status>>
                          /\ template.message = instance.message
                          /\ template.data = e.value.schema
            /\ \A e \in TemplateEntries(registry) :
                  Unshadowed(registry, e) => Get(plain, e.key) = e.value

\* C13 without the data schema: what the code does for the status, the
\* message and a plain template; the data of a class's template is
\* undefined whatever schema the class declares.
C13_StatusMessageAndPassThrough ==
    (ErrorsCalled /\ ~lastCall.threw) =>
        LET registry == ProjectedRegistry
            plain == effectErrorMapToErrorMap(registry)
        IN  /\ \A e \in ClassEntries(registry) :
                  Unshadowed(registry, e) =>
                      LET instance == NewTaggedError(e.value, NoOptions)
                          template == Get(plain, e.value.code)
                      IN  /\ template.status = <<instance.status>>
                          /\ template.message = instance.message
                          /\ template.data = Undefined
            /\ \A e \in TemplateEntries(registry) :
                  Unshadowed(registry, e) => Get(plain, e.key) = e.value

\* The registrations that own the key, by their position in the chain.
RegistrationsOf(key) ==
    {i \in 1..Len(registered) : HasKey(registered[i], key)}

\* The last registration of the key.
LastRegistration(key) ==
    registered[CHOOSE i \in RegistrationsOf(key) :
                   \A j \in RegistrationsOf(key) : j <= i]

\* C14: errors(B) on an object whose effect registry is A gives the
\* registry that has B's entry for every key of B, A's entry for every key
\* of A alone, and no other key; along a chain, every key of the effect
\* registry has the entry of its last registration.
C14_RightBiasedMerge ==
    /\ (ErrorsCalled /\ ~lastCall.threw) =>
          LET A == receiver.effectErrorMap
              B == lastCall.arg
              merged == builder.effectErrorMap
          IN  /\ Keys(merged) = Keys(A) \cup Keys(B)
              /\ \A k \in Keys(B) : Get(merged, k) = Get(B, k)
              /\ \A k \in Keys(A) \ Keys(B) : Get(merged, k) = Get(A, k)
              /\ merged = mergeAnyErrorMaps(A, B)
    /\ builder # NoCall =>
          /\ Keys(builder.effectErrorMap) =
                 UNION {Keys(registered[i]) : i \in 1..Len(registered)}
          /\ \A k \in Keys(builder.effectErrorMap) :
                 Get(builder.effectErrorMap, k) = Get(LastRegistration(k), k)

C14_Witness ==
    /\ ErrorsCalled
    /\ ~lastCall.threw
    /\ chain = <<"errors", "effect", "errors">>
    /\ \E k \in Keys(lastCall.arg) \cap Keys(receiver.effectErrorMap) :
          /\ Get(lastCall.arg, k) # Get(receiver.effectErrorMap, k)
          /\ Get(builder.effectErrorMap, k) = Get(lastCall.arg, k)
    /\ \E k \in Keys(receiver.effectErrorMap) \ Keys(lastCall.arg) :
          Get(builder.effectErrorMap, k) = Get(receiver.effectErrorMap, k)

\* The handler of the procedure the chain reached has been called.
Invoked == pc = "running" /\ IsProcedure

\* C24: the span name of a handler invocation is the name given to the
\* last traced() call of the chain that led to effect(), when the chain has
\* one, and otherwise the segments of the call's path joined with "."; as
\* long as traced() has not been called the builder has no spanConfig.
C24_SpanNameFromTracedOrPath ==
    /\ Invoked =>
          /\ traces # <<>> => Str(spanName) = traces[Len(traces)]
          /\ traces = <<>> => Str(spanName) = Str(JoinPath(opts.path))
          /\ (traces = <<>> /\ opts.path = <<"users", "getUser">>)
                 => Str(spanName) = "users.getUser"
          /\ runCalls[1].spanName = spanName
    /\ (builder # NoCall /\ traces = <<>>) =>
          builder.spanConfig = UndefinedValue

C24_Witness ==
    /\ Invoked
    /\ chain = <<"traced", "traced", "effect">>
    /\ traces = <<"custom.name", "other.name">>
    /\ Str(spanName) = "other.name"
    /\ opts.path = <<"users", "getUser">>

\* The chain is made of use(), input() and output() calls only.
OnlyUseInputOutput ==
    /\ IsBuilder
    /\ \A k \in 1..Len(chain) : chain[k] \in {"use", "input", "output"}

\* The number of use() calls among the first n calls of the chain.
UsesAmong(n) == Cardinality({k \in 1..n : chain[k] = "use"})

\* The number of middlewares of the builder just before call k of a chain
\* of use(), input() and output() calls.
MiddlewaresBefore(k) ==
    Len(builder.middlewares) - UsesAmong(Len(chain)) + UsesAmong(k - 1)

\* The position in the chain of the last call of the method, 0 for none.
LastCallOf(method) ==
    IF \E k \in 1..Len(chain) : chain[k] = method
    THEN CHOOSE k \in 1..Len(chain) :
             /\ chain[k] = method
             /\ \A j \in (k + 1)..Len(chain) : chain[j] # method
    ELSE 0

\* C25: after a chain of use(), input() and output() calls, the input
\* validation index is the configured initial index plus the number of
\* middlewares the builder had when input() was last called, and likewise
\* for the output validation index and output(); use() calls made after
\* them change neither.
C25_IndicesCountMiddlewaresAtCall ==
    OnlyUseInputOutput =>
        /\ LastCallOf("input") > 0 =>
              builder.inputValidationIndex =
                  fallbackConfig("initialInputValidationIndex",
                                 builder.config.initialInputValidationIndex)
                  + MiddlewaresBefore(LastCallOf("input"))
        /\ LastCallOf("output") > 0 =>
              builder.outputValidationIndex =
                  fallbackConfig("initialOutputValidationIndex",
                                 builder.config.initialOutputValidationIndex)
                  + MiddlewaresBefore(LastCallOf("output"))
        /\ (chain # <<>> /\ lastCall.method = "use") =>
              /\ builder.inputValidationIndex = receiver.inputValidationIndex
              /\ builder.outputValidationIndex = receiver.outputValidationIndex

C25_Witness ==
    /\ IsBuilder
    /\ chain = <<"use", "input", "use">>
    /\ builder.config.initialInputValidationIndex = <<11>>
    /\ Len(builder.middlewares) = 3
    /\ builder.inputValidationIndex = 13
    /\ builder.outputValidationIndex = 22

\* The entries of a registry that bind a tagged class to a key that is not
\* the code of the class.
RenamedEntries(registry) ==
    {e \in ClassEntries(registry) : e.key # e.value.code}

\* C26: when a tagged class T is registered under a key k other than
\* T.code, what the handler's errors[k] constructs is an instance of T whose
\* code, and whose embedded ORPCError's code, is T.code and not k; and the
\* plain registry files the template derived from T under T.code, with no
\* entry under k unless another entry of the registry lands there.
C26_KeyIsOnlyAName ==
    /\ Invoked =>
          \A e \in RenamedEntries(def.effectErrorMap) :
              \A o \in {NoOptions, [NoOptions EXCEPT !.message = "m1"]} :
                  LET v == ConstructorMapCall(effectOpts.errors, e.key, o)
                  IN  /\ isORPCTaggedError(v)
                      /\ v._tag = e.value._tag
                      /\ v.code = e.value.code
                      /\ v.code # e.key
                      /\ toORPCError(v).code = e.value.code
    /\ builder # NoCall =>
          \A e \in RenamedEntries(builder.effectErrorMap) :
              /\ HasKey(builder.errorMap, e.value.code)
              /\ Get(builder.errorMap, e.value.code).kind = "Template"
              /\ (\A f \in EntriesOf(builder.effectErrorMap) :
                      (f # e /\ f.value.kind # "Undefined")
                          => ResultKey(f) # e.key)
                    => ~HasKey(builder.errorMap, e.key)

C26_Witness ==
    /\ Invoked
    /\ HasKey(def.effectErrorMap, "USER_NOT_FOUND")
    /\ Get(def.effectErrorMap, "USER_NOT_FOUND") = UserNotFoundError
    /\ ConstructorMapCall(effectOpts.errors, "USER_NOT_FOUND", NoOptions).code
           = "USER_NOT_FOUND_ERROR"
    /\ HasKey(builder.errorMap, "USER_NOT_FOUND_ERROR")
    /\ ~HasKey(builder.errorMap, "USER_NOT_FOUND")

\* The definition fields a chain method targets.
Targets(method) ==
    CASE method = "errors" -> {"errorMap", "effectErrorMap"}
      [] method = "use"    -> {"middlewares"}
      [] method = "meta"   -> {"meta"}
      [] method = "route"  -> {"route"}
      [] method = "input"  -> {"inputSchema", "inputValidationIndex"}
      [] method = "output" -> {"outputSchema", "outputValidationIndex"}
      [] method = "traced" -> {"spanConfig"}

PassThroughMethods ==
    {"errors", "use", "meta", "route", "input", "output", "traced"}

\* The last call of the chain returned a value.
Returned == lastCall # NoCall /\ ~lastCall.threw

\* C30: the value errors(), use(), meta(), route(), input(), output() or
\* traced() returned has the fields of its receiver, and every field the
\* method does not target equals the receiver's; whatever method a chain
\* calls, the runtime of the value is its receiver's, and so is the handler
\* when the receiver is a procedure.
C30_OnlyTargetedFieldsChange ==
    Returned =>
        /\ lastCall.method \in PassThroughMethods =>
              /\ DOMAIN builder = DOMAIN receiver
              /\ \A field \in DOMAIN receiver \ Targets(lastCall.method) :
                    builder[field] = receiver[field]
        /\ builder.runtime = receiver.runtime
        /\ receiver.kind = "Procedure" => builder.handler = receiver.handler

\* A chain has reached a procedure and called a method of it that took
\* effect, and the procedure returned has the runtime and the handler of
\* the one before.
C30_Witness ==
    /\ Returned
    /\ receiver.kind = "Procedure"
    /\ receiver.handler.kind = "EffectHandler"
    /\ lastCall.method \in {"meta", "use"}
    /\ builder # receiver
    /\ builder.runtime.kind = "ManagedRuntime"
    /\ builder.handler = receiver.handler

(***************************************************************************)
(* A handler body that looks constructors up in the errors map it is       *)
(* given, calls them, and constructs tagged errors directly.               *)
(***************************************************************************)
\* Largest number of constructions the body makes during one call.
MaxMade == 2

\* Registries of the procedures: plain templates with and without a status
\* and a message, classes under their code and under another key, a class
\* with defaults, a class that cannot be constructed from its defaults, an
\* undefined entry; and the empty registry.
BodyRegistries ==
    {Obj(<<Entry("BAD_REQUEST", ErrorMapItem(<<400>>, "Bad request", Undefined)),
           Entry("NOT_FOUND", ErrorMapItem(<<>>, "Not found", Undefined)),
           Entry("CONFLICT", ErrorMapItem(<<>>, Undefined, "schema:conflict")),
           Entry("USER_NOT_FOUND_ERROR", UserNotFoundError),
           Entry("VALIDATION", ValidationError),
           Entry("UNAVAILABLE", CustomStatusError),
           Entry("TEAPOT", SuccessStatusError),
           Entry("FORBIDDEN", UndefinedValue)>>),
     Obj(<<>>)}

BodyDefs ==
    {[effectErrorMap |-> r, spanConfig |-> UndefinedValue,
      runtime |-> [kind |-> "ManagedRuntime", services |-> {}]] :
        r \in BodyRegistries}

BodyCallOptions == {CauseCall}

\* The keys a body reads from the errors map; the last one is in no registry.
LookupKeys ==
    {"BAD_REQUEST", "NOT_FOUND", "CONFLICT", "USER_NOT_FOUND_ERROR",
     "VALIDATION", "UNAVAILABLE", "TEAPOT", "FORBIDDEN", "RATE_LIMITED"}

\* The classes a body constructs with new.
BodyClasses ==
    {UserNotFoundError, ValidationError, PermissionDenied, CustomStatusError,
     SuccessStatusError}

\* The options a body passes to a constructor or to a function of the map.
ConstructorOptions ==
    {NoOptions,
     [NoOptions EXCEPT !.message = "m1"],
     [NoOptions EXCEPT !.data = "d1", !.cause = StringValue("why")],
     [NoOptions EXCEPT !.status = <<410>>],
     [NoOptions EXCEPT !.status = <<200>>, !.message = "m1"],
     [NoOptions EXCEPT !.defined = <<FALSE>>]}

BodyInit ==
    /\ def \in BodyDefs
    /\ pc = "idle"
    /\ opts = NoCall
    /\ effectOpts = NoCall
    /\ spanName = <<>>
    /\ bodyCalls = <<>>
    /\ runCalls = <<>>
    /\ aborted = FALSE
    /\ interrupted = FALSE
    /\ exit = NoCall
    /\ outcomes = <<>>
    /\ NoChain
    /\ NoOthers
    /\ lookup = NoCall
    /\ built = NoCall
    /\ instances = <<>>
    /\ made = <<>>

\* The RPC layer calls the handler, which builds the errors map and calls
\* the body with it.
BodyInvoke(o) ==
    /\ pc = "idle"
    /\ LET h == HandlerBegin(def, o)
       IN  /\ effectOpts' = h.effectOpts
           /\ spanName' = h.spanName
           /\ bodyCalls' = h.bodyCalls
           /\ runCalls' = h.runCalls
    /\ opts' = o
    /\ pc' = "body"
    /\ UNCHANGED <<def, aborted, interrupted, exit, outcomes>>
    /\ UNCHANGED <<builderVars, errorsVars, otherVars>>

\* The body reads errors[key].
BodyGet(key) ==
    /\ pc = "body"
    /\ lookup' = [key |-> key, fn |-> ConstructorMapGet(effectOpts.errors, key)]
    /\ UNCHANGED <<otherVars, handlerVars, builderVars, built, instances, made>>

\* The body calls the function it read last.
BodyCall(options) ==
    /\ pc = "body"
    /\ lookup # NoCall
    /\ Len(made) < MaxMade
    /\ built' = [by |-> "errors", key |-> lookup.key, options |-> options,
                 value |-> FunctionCall(lookup.fn, options)]
    /\ instances' = instances \o FunctionNews(lookup.fn)
    /\ made' = Append(made, [by |-> "errors", key |-> lookup.key])
    /\ UNCHANGED <<otherVars, handlerVars, builderVars, lookup>>

\* The body constructs a tagged error with new.
BodyNew(class, options) ==
    /\ pc = "body"
    /\ Len(made) < MaxMade
    /\ built' = [by |-> "new", class |-> class, options |-> options,
                 value |-> NewTaggedError(class, options)]
    /\ instances' = Append(instances, class)
    /\ made' = Append(made, [by |-> "new", class |-> class])
    /\ UNCHANGED <<otherVars, handlerVars, builderVars, lookup>>

\* The body is done with the errors map.
BodyEnd ==
    /\ pc = "body"
    /\ pc' = "ended"
    /\ UNCHANGED <<def, opts, effectOpts, spanName, bodyCalls, runCalls,
                   aborted, interrupted, exit, outcomes>>
    /\ UNCHANGED <<builderVars, errorsVars, otherVars>>

BodyNext ==
    \/ \E o \in BodyCallOptions : BodyInvoke(o)
    \/ \E key \in LookupKeys : BodyGet(key)
    \/ \E options \in ConstructorOptions : BodyCall(options)
    \/ \E class \in BodyClasses, options \in ConstructorOptions :
          BodyNew(class, options)
    \/ BodyEnd

BodySpec == BodyInit /\ [][BodyNext]_vars

(***************************************************************************)
(* Properties of the errors map and of tagged error construction.          *)
(***************************************************************************)
\* The body's last construction went through the errors map.
BuiltFromMap == built # NoCall /\ built.by = "errors"

\* The registry entry of the key the last construction used.
BuiltConfig == Get(def.effectErrorMap, built.key)

\* The status and message the protocol gives a code by default.
ProtocolStatus(code) ==
    IF code \in DOMAIN COMMON_ORPC_ERROR_DEFS
    THEN COMMON_ORPC_ERROR_DEFS[code].status
    ELSE 500

ProtocolMessage(code) ==
    IF code \in DOMAIN COMMON_ORPC_ERROR_DEFS
    THEN COMMON_ORPC_ERROR_DEFS[code].message
    ELSE code

\* C15: the function of the errors map for a key bound to a plain template
\* returns an ORPCError with the key as code, defined true, the template's
\* status (the protocol's for the code when the template has none) and the
\* call's message when given, else the template's (else the protocol's);
\* for a key with no entry it returns an ORPCError with the key as code
\* and defined false.
C15_PlainFactory ==
    BuiltFromMap =>
        LET config == BuiltConfig
            v == built.value
            o == built.options
        IN  /\ config.kind = "Template" =>
                  /\ isORPCError(v)
                  /\ v.code = built.key
                  /\ v.defined = TRUE
                  /\ v.status = IF config.status # <<>> THEN config.status[1]
                                ELSE ProtocolStatus(built.key)
                  /\ v.message = IF o.message # Undefined THEN o.message
                                 ELSE IF config.message # Undefined
                                      THEN config.message
                                      ELSE ProtocolMessage(built.key)
                  /\ v.data = o.data
            /\ config.kind = "Undefined" =>
                  /\ isORPCError(v)
                  /\ v.code = built.key
                  /\ v.defined = FALSE
                  /\ v.status = ProtocolStatus(built.key)

C15_Witness ==
    /\ BuiltFromMap
    /\ made = <<[by |-> "errors", key |-> "RATE_LIMITED"],
                [by |-> "errors", key |-> "BAD_REQUEST"]>>
    /\ ~HasKey(def.effectErrorMap, "RATE_LIMITED")
    /\ BuiltConfig = ErrorMapItem(<<400>>, "Bad request", Undefined)
    /\ built.options.message = "m1"
    /\ built.value.code = "BAD_REQUEST"
    /\ built.value.status = 400
    /\ built.value.message = "m1"
    /\ built.value.defined

\* C16: the function of the errors map for a key bound to a tagged class
\* T, called with some options, returns an instance of T with the data,
\* message, status and code of new T(options), or throws what new T(options)
\* throws.
C16_MapConstructsLikeNew ==
    (BuiltFromMap /\ BuiltConfig.kind = "TaggedClass") =>
        LET T == BuiltConfig
            direct == NewTaggedError(T, built.options)
            v == built.value
        IN  IF direct.kind = "Thrown" THEN v = direct
            ELSE /\ isORPCTaggedError(v)
                 /\ v._tag = T._tag
                 /\ v.code = T.code
                 /\ v.data = built.options.data
                 /\ v.data = direct.data
                 /\ v.message = direct.message
                 /\ v.status = direct.status
                 /\ v.code = direct.code

C16_Witness ==
    /\ BuiltFromMap
    /\ built.key = "VALIDATION"
    /\ BuiltConfig = ValidationError
    /\ built.options.data = "d1"
    /\ built.value._tag = "ValidationError"
    /\ built.value.code = "BAD_REQUEST"
    /\ built.value.data = "d1"
    /\ built.value.message = "Validation failed"
    /\ built.value.status = 400

\* The body has read a key of the errors map.
LookedUp == lookup # NoCall

\* The registry entry of the key the body read last.
LookupConfig == Get(def.effectErrorMap, lookup.key)

RECURSIVE ClassesMade(_)
ClassesMade(constructions) ==
    IF constructions = <<>> THEN <<>>
    ELSE LET c == Head(constructions)
             here == IF c.by = "new" THEN <<c.class>>
                     ELSE IF Get(def.effectErrorMap, c.key).kind = "TaggedClass"
                          THEN <<Get(def.effectErrorMap, c.key)>>
                          ELSE <<>>
         IN  here \o ClassesMade(Tail(constructions))

\* C18: building the errors map, reading its keys, and a call of the
\* handler whose body constructs nothing run no class constructor; a class
\* constructor runs only when the body calls the function of a key bound
\* to the class (or uses new itself), once for each such call.
C18_InstantiatedOnlyWhenCalled ==
    /\ instances = ClassesMade(made)
    /\ made = <<>> => instances = <<>>

C18_Witness ==
    /\ pc = "ended"
    /\ LookedUp
    /\ made = <<[by |-> "errors", key |-> "BAD_REQUEST"],
                [by |-> "errors", key |-> "USER_NOT_FOUND_ERROR"]>>
    /\ instances = <<UserNotFoundError>>

\* The body's last construction ran the constructor of a tagged class.
BuiltTagged ==
    /\ built # NoCall
    /\ built.by = "new" \/ BuiltConfig.kind = "TaggedClass"

\* The class whose constructor the last construction ran.
BuiltClass == IF built.by = "new" THEN built.class ELSE BuiltConfig

\* The status given to the last construction: the option of the call, else
\* the default of the class, else none.
SuppliedStatus ==
    IF built.options.status # <<>> THEN built.options.status
    ELSE BuiltClass.defaultStatus

\* C19: constructing a tagged error with a status, given by the call or
\* else by the class, that is not an error status (200 to 399) throws
\* '[ORPCTaggedError] Invalid error status code.'; with an error status
\* the construction succeeds and the instance has that status.
C19_IllegalStatusThrows ==
    (BuiltTagged /\ SuppliedStatus # <<>>) =>
        IF SuppliedStatus[1] >= 200 /\ SuppliedStatus[1] < 400
        THEN built.value =
                 Thrown(ErrorValue(<<"[ORPCTaggedError] Invalid error status code.">>))
        ELSE /\ isORPCTaggedError(built.value)
             /\ built.value.status = SuppliedStatus[1]
             /\ built.value.embedded.status = SuppliedStatus[1]

C19_Witness ==
    /\ BuiltTagged
    /\ made = <<[by |-> "new", class |-> SuccessStatusError],
                [by |-> "errors", key |-> "TEAPOT"]>>
    /\ built.options.status = <<>>
    /\ BuiltClass.defaultStatus = <<200>>
    /\ built.value = Thrown(InvalidStatusError)

\* C20: the status of a constructed tagged error is the status of the
\* call's options, else the default of its class, else the protocol's
\* status for its code (500 for a code the protocol does not know); its
\* message is the message of the call's options, else the default of its
\* class, else the protocol's message for its code (the code itself for a
\* code the protocol does not know).
C20_StatusAndMessageFallBack ==
    (BuiltTagged /\ isORPCTaggedError(built.value)) =>
        LET class == BuiltClass
            o == built.options
            v == built.value
        IN  /\ v.status =
                   IF o.status # <<>> THEN o.status[1]
                   ELSE IF class.defaultStatus # <<>> THEN class.defaultStatus[1]
                   ELSE IF v.code \in DOMAIN COMMON_ORPC_ERROR_DEFS
                        THEN COMMON_ORPC_ERROR_DEFS[v.code].status
                        ELSE 500
            /\ v.message =
                   IF o.message # Undefined THEN o.message
                   ELSE IF class.defaultMessage # Undefined
                        THEN class.defaultMessage
                   ELSE IF v.code \in DOMAIN COMMON_ORPC_ERROR_DEFS
                        THEN COMMON_ORPC_ERROR_DEFS[v.code].message
                        ELSE v.code
            /\ v.code = class.code
            /\ v.embedded.status = v.status
            /\ v.embedded.message = v.message

C20_Witness ==
    /\ BuiltTagged
    /\ made = <<[by |-> "new", class |-> UserNotFoundError],
                [by |-> "new", class |-> CustomStatusError]>>
    /\ built.options.status = <<410>>
    /\ built.options.message = Undefined
    /\ built.value.status = 410
    /\ built.value.message = "Service unavailable"

(***************************************************************************)
(* A tagged error instance and its conversions to a plain ORPCError.       *)
(***************************************************************************)
\* Largest number of conversions asked of one instance.
MaxConversions == 2

\* No handler is being called.
NoHandler ==
    /\ def = NoCall
    /\ pc = "none"
    /\ opts = NoCall
    /\ effectOpts = NoCall
    /\ spanName = <<>>
    /\ bodyCalls = <<>>
    /\ runCalls = <<>>
    /\ aborted = FALSE
    /\ interrupted = FALSE
    /\ exit = NoCall
    /\ outcomes = <<>>

\* The options given to the constructor of a tagged error.
InteropOptions ==
    ConstructorOptions
        \cup {[NoOptions EXCEPT !.data = "d1", !.message = "m1"],
              [NoOptions EXCEPT !.status = <<404>>,
                                !.cause = ErrorValue(<<"original">>)]}

Vias == {"method", "function", "symbol"}

TaggedInit ==
    /\ NoHandler
    /\ NoChain
    /\ NoLookup
    /\ NoTree
    /\ calls = <<>>
    /\ NoRouter
    /\ tagChars = <<>>
    /\ factoryCall = NoCall
    /\ errorClass \in BodyClasses
    /\ errorInstance = NoCall
    /\ conversions = <<>>

\* new errorClass(options)
TaggedNew(options) ==
    /\ errorClass # NoCall
    /\ errorInstance = NoCall
    /\ errorInstance' = [options |-> options,
                         value |-> NewTaggedError(errorClass, options)]
    /\ UNCHANGED <<handlerVars, builderVars, errorsVars, treeVars, calls,
                   routerVars>>
    /\ UNCHANGED <<tagChars, factoryCall, errorClass, conversions>>

\* One conversion of the instance to a plain ORPCError.
TaggedConvert(via) ==
    /\ errorInstance # NoCall
    /\ errorInstance.value.kind = "Tagged"
    /\ Len(conversions) < MaxConversions
    /\ conversions' = Append(conversions,
                             [via |-> via,
                              value |-> ConvertVia(via, errorInstance.value)])
    /\ UNCHANGED <<handlerVars, builderVars, errorsVars, treeVars, calls,
                   routerVars>>
    /\ UNCHANGED <<tagChars, factoryCall, errorClass, errorInstance>>

TaggedNext ==
    \/ \E options \in InteropOptions : TaggedNew(options)
    \/ \E via \in Vias : TaggedConvert(via)

TaggedSpec == TaggedInit /\ [][TaggedNext]_vars

\* C21: every conversion of a tagged error instance, by the method, the
\* function or the symbol, returns the one ORPCError the constructor stored
\* in the instance; that ORPCError has the code, status, message, data,
\* defined flag and cause of the instance; and the instance has the data
\* and the message it was constructed with.
C21_OneEmbeddedError ==
    (errorInstance # NoCall /\ errorInstance.value.kind = "Tagged") =>
        LET e == errorInstance.value
            o == errorInstance.options
        IN  /\ isORPCError(e.embedded)
            /\ e.embedded.ref = "embedded"
            /\ \A i \in 1..Len(conversions) : conversions[i].value = e.embedded
            /\ e.embedded.code = e.code
            /\ e.code = errorClass.code
            /\ e.embedded.status = e.status
            /\ e.embedded.message = e.message
            /\ e.embedded.data = e.data
            /\ e.embedded.defined = e.defined
            /\ e.embedded.cause = e.cause
            /\ e.data = o.data
            /\ e.cause = o.cause
            /\ o.message # Undefined => e.message = o.message

C21_Witness ==
    /\ errorInstance # NoCall
    /\ errorInstance.value.kind = "Tagged"
    /\ errorInstance.options.data = "d1"
    /\ errorInstance.options.message = "m1"
    /\ errorInstance.value.data = "d1"
    /\ errorInstance.value.message = "m1"
    /\ Len(conversions) = 2
    /\ conversions[1].via = "function"
    /\ conversions[2].via = "method"
    /\ conversions[1].value = conversions[2].value

(***************************************************************************)
(* Tagged error classes defined through the factory.                       *)
(***************************************************************************)
\* Largest number of characters typed into a tag.
MaxTag == 4

\* The characters typed into a tag: letters of both cases, a digit, an
\* underscore.
TagChars == {"a", "z", "A", "Z", "1", "_"}

UserNotFoundErrorTag ==
    <<"U", "s", "e", "r", "N", "o", "t", "F", "o", "u", "n", "d",
      "E", "r", "r", "o", "r">>

XMLHttpRequestErrorTag ==
    <<"X", "M", "L", "H", "t", "t", "p", "R", "e", "q", "u", "e", "s", "t",
      "E", "r", "r", "o", "r">>

DefaultOptions ==
    [kind |-> "Options", status |-> <<503>>, message |-> "Unavailable"]

\* The second and third arguments of the factory: none, options only, a
\* code only, a code and options.
FactoryCalls ==
    {[codeOrOptions |-> UndefinedValue, defaultOptions |-> UndefinedValue],
     [codeOrOptions |-> DefaultOptions, defaultOptions |-> UndefinedValue],
     [codeOrOptions |-> StringValue("NOT_FOUND"),
      defaultOptions |-> UndefinedValue],
     [codeOrOptions |-> StringValue("CUSTOM_CODE"),
      defaultOptions |-> DefaultOptions]}

FactoryInit ==
    /\ NoHandler
    /\ NoChain
    /\ NoLookup
    /\ NoTree
    /\ calls = <<>>
    /\ NoRouter
    /\ tagChars \in {<<>>, UserNotFoundErrorTag, XMLHttpRequestErrorTag}
    /\ factoryCall = NoCall
    /\ errorClass = NoCall
    /\ errorInstance = NoCall
    /\ conversions = <<>>

\* One more character of the tag.
FactoryType(c) ==
    /\ errorClass = NoCall
    /\ Len(tagChars) < MaxTag
    /\ tagChars' = Append(tagChars, c)
    /\ UNCHANGED <<handlerVars, builderVars, errorsVars, treeVars, calls,
                   routerVars>>
    /\ UNCHANGED <<factoryCall, errorClass, errorInstance, conversions>>

\* class extends ORPCTaggedError()(tag, codeOrOptions, defaultOptions)
FactoryDefine(call) ==
    /\ errorClass = NoCall
    /\ factoryCall' = call
    /\ errorClass' = ORPCTaggedError(Undefined, tagChars, call.codeOrOptions,
                                     call.defaultOptions)
    /\ UNCHANGED <<handlerVars, builderVars, errorsVars, treeVars, calls,
                   routerVars>>
    /\ UNCHANGED <<tagChars, errorInstance, conversions>>

FactoryNext ==
    \/ \E c \in TagChars : FactoryType(c)
    \/ \E call \in FactoryCalls : FactoryDefine(call)
    \/ \E options \in {NoOptions, [NoOptions EXCEPT !.message = "m1"]} :
          TaggedNew(options)

FactorySpec == FactoryInit /\ [][FactoryNext]_vars

\* An underscore follows the character at position i of the tag: the
\* character is a lowercase letter followed by a capital, or a capital
\* followed by a capital that a lowercase letter follows.
UnderscoreAfter(tag, i) ==
    /\ i < Len(tag)
    /\ \/ IsLower(tag[i]) /\ IsUpper(tag[i + 1])
       \/ /\ IsUpper(tag[i]) /\ IsUpper(tag[i + 1])
          /\ i + 2 <= Len(tag)
          /\ IsLower(tag[i + 2])

RECURSIVE ConstantCaseFrom(_, _)
ConstantCaseFrom(tag, i) ==
    IF i > Len(tag) THEN ""
    ELSE UpperOf(tag[i]) \o (IF UnderscoreAfter(tag, i) THEN "_" ELSE "")
         \o ConstantCaseFrom(tag, i + 1)

ExplicitCode ==
    factoryCall # NoCall /\ factoryCall.codeOrOptions.kind = "String"

\* C22: the code of a class defined without an explicit code is its tag
\* upper-cased with an underscore after every lowercase letter that a
\* capital follows and after every capital followed by a capital that a
\* lowercase letter follows; the code of a class defined with an explicit
\* code is that code; every instance of the class has the code of the class.
C22_CodeIsConstantCaseOfTag ==
    errorClass # NoCall =>
        /\ errorClass._tag = Str(tagChars)
        /\ ExplicitCode => errorClass.code = factoryCall.codeOrOptions.value
        /\ ~ExplicitCode => errorClass.code = ConstantCaseFrom(tagChars, 1)
        /\ (~ExplicitCode /\ tagChars = UserNotFoundErrorTag)
               => errorClass.code = "USER_NOT_FOUND_ERROR"
        /\ (~ExplicitCode /\ tagChars = XMLHttpRequestErrorTag)
               => errorClass.code = "XML_HTTP_REQUEST_ERROR"
        /\ (errorInstance # NoCall /\ errorInstance.value.kind = "Tagged")
               => /\ errorInstance.value.code = errorClass.code
                  /\ errorInstance.value._tag = errorClass._tag

C22_Witness ==
    /\ errorClass # NoCall
    /\ ~ExplicitCode
    /\ tagChars = XMLHttpRequestErrorTag
    /\ errorClass.code = "XML_HTTP_REQUEST_ERROR"
    /\ errorInstance # NoCall
    /\ errorInstance.value.kind = "Tagged"
    /\ errorInstance.value.code = "XML_HTTP_REQUEST_ERROR"

(***************************************************************************)
(* Builders and procedures derived from one another by chain methods.      *)
(***************************************************************************)
\* Largest number of objects constructed, the wrapped builder included.
MaxObjects == 3

\* The chain method calls made, each with its arguments.
ChainCalls ==
    {[method |-> "errors", arg |-> r] :
        r \in {Obj(<<Entry("USER_NOT_FOUND", UserNotFoundError)>>),
               Obj(<<Entry("TEAPOT", SuccessStatusError)>>)}}
    \cup {[method |-> "use", arg |-> AuthMiddleware],
          [method |-> "meta", arg |-> Obj(<<Entry("auth", "required")>>)],
          [method |-> "route", arg |-> Obj(<<Entry("method", "GET")>>)],
          [method |-> "input", arg |-> "schema:input"],
          [method |-> "output", arg |-> "schema:output"],
          [method |-> "traced", arg |-> "custom.name"],
          [method |-> "$config",
           arg |-> [initialInputValidationIndex |-> <<5>>,
                    initialOutputValidationIndex |-> <<>>,
                    dedupeLeadingMiddlewares |-> <<FALSE>>]],
          [method |-> "$context", arg |-> Undefined],
          [method |-> "$meta", arg |-> Obj(<<Entry("auth", "required")>>)],
          [method |-> "$route", arg |-> Obj(<<Entry("method", "GET")>>)],
          [method |-> "$input", arg |-> "schema:initial"],
          [method |-> "prefix", arg |-> <<"/api">>],
          [method |-> "tag", arg |-> <<"users">>],
          [method |-> "handler", arg |-> "handler"],
          [method |-> "effect", arg |-> "effectFn"]}

ProcedureMethods == {"errors", "meta", "route", "use"}

\* The definition given to the constructor by a chain method of an
\* EffectBuilder with definition d, or the error the method throws.
BuilderMethod(d, call) ==
    CASE call.method = "errors" -> BuilderErrors(d, call.arg)
      [] call.method = "use" -> BuilderUse(d, call.arg, Undefined)
      [] call.method = "meta" -> BuilderMeta(d, call.arg)
      [] call.method = "route" -> BuilderRoute(d, call.arg)
      [] call.method = "input" -> BuilderInput(d, call.arg)
      [] call.method = "output" -> BuilderOutput(d, call.arg)
      [] call.method = "traced" -> BuilderTraced(d, call.arg)
      [] call.method = "$config" -> BuilderConfig(d, call.arg)
      [] call.method = "$context" -> BuilderContext(d)
      [] call.method = "$meta" -> BuilderInitialMeta(d, call.arg)
      [] call.method = "$route" -> BuilderInitialRoute(d, call.arg)
      [] call.method = "$input" -> BuilderInitialInput(d, call.arg)
      [] call.method = "prefix" -> BuilderPrefix(d, call.arg)
      [] call.method = "tag" -> BuilderTag(d, call.arg)
      [] call.method = "handler" -> BuilderHandler(d, call.arg)
      [] call.method = "effect" -> BuilderEffect(d, call.arg)

\* The same for a chain method of an EffectDecoratedProcedure.
ProcedureMethod(d, call) ==
    CASE call.method = "errors" -> ProcedureErrors(d, call.arg)
      [] call.method = "use" -> ProcedureUse(d, call.arg, Undefined)
      [] call.method = "meta" -> ProcedureMeta(d, call.arg)
      [] call.method = "route" -> ProcedureRoute(d, call.arg)

\* A chain method changing the definition of its receiver and returning
\* the receiver.
Construct_InPlace(i, call, next) ==
    /\ objects' = [objects EXCEPT ![i].def = next]
    /\ derived' = [receiver |-> i, call |-> call, returned |-> i,
                   threw |-> FALSE]

\* new EffectBuilder(next) / new EffectDecoratedProcedure(next), returned
\* by the method call made on object i.
Construct(i, call, next) ==
    /\ objects' = Append(objects, [def |-> next, born |-> next, from |-> i,
                                   call |-> call])
    /\ derived' = [receiver |-> i, call |-> call,
                   returned |-> Len(objects) + 1, threw |-> FALSE]

TreeInit ==
    /\ NoHandler
    /\ NoChain
    /\ NoLookup
    /\ NoTagged
    /\ calls = <<>>
    /\ NoRouter
    /\ \E rt \in Runtimes, b \in BaseBuilders :
          LET d == makeEffectORPC(rt, b)
          IN  objects = <<[def |-> d, born |-> d, from |-> 0,
                          call |-> NoCall]>>
    /\ derived = NoCall

\* One chain method call on any object constructed so far.
TreeCall(i, call) ==
    /\ Len(objects) < MaxObjects
    /\ LET d == objects[i].def
           next == IF d.kind = "Builder" THEN BuilderMethod(d, call)
                   ELSE ProcedureMethod(d, call)
       IN  /\ d.kind = "Procedure" => call.method \in ProcedureMethods
           /\ IF next.kind = "Thrown"
              THEN /\ derived' = [receiver |-> i, call |-> call,
                                  returned |-> 0, threw |-> TRUE]
                   /\ UNCHANGED objects
              ELSE Construct(i, call, next)
    /\ UNCHANGED <<handlerVars, builderVars, errorsVars, taggedVars, calls,
                   routerVars>>

TreeNext == \E i \in 1..Len(objects), call \in ChainCalls : TreeCall(i, call)

TreeSpec == TreeInit /\ [][TreeNext]_vars

\* C23: a chain method call that returns, returns an object constructed by
\* the call, which is not its receiver; and every object constructed so
\* far, the receivers of all the calls among them, still has the definition
\* it was constructed with, whatever was called on it or on the objects
\* derived from it.
C23_ReceiversUntouched ==
    /\ \A k \in 1..Len(objects) :
          /\ objects[k].def = objects[k].born
          /\ objects[k].from < k
    /\ (derived # NoCall /\ ~derived.threw) =>
          /\ derived.returned # derived.receiver
          /\ derived.returned = Len(objects)
          /\ objects[derived.returned].from = derived.receiver
          /\ objects[derived.returned].call = derived.call

C23_Witness ==
    /\ Len(objects) = 3
    /\ objects[2].from = 1
    /\ objects[2].call.method = "effect"
    /\ objects[3].from = 1
    /\ objects[3].call.method = "use"
    /\ objects[3].def.middlewares # objects[1].def.middlewares
    /\ objects[1].def = objects[1].born
    /\ derived.receiver = 1
    /\ derived.returned = 3

(***************************************************************************)
(* Calls of one procedure's handler in flight at the same time.            *)
(***************************************************************************)
\* Largest number of calls in flight.
MaxCalls == 2

CallIds == 1..MaxCalls

\* The abort signal the caller of each call may pass.
Signals == <<"signal1", "signal2", "signal3", "signal4">>

\* The options of call c: two inputs with two paths, with and without a
\* signal of the call's own.
ConcurrentOptions(c) ==
    {[kind |-> "Options", context |-> "ctx", input |-> io[1], path |-> io[2],
      procedure |-> "procedure", signal |-> sg, lastEventId |-> Undefined] :
        io \in {<<"in1", <<"users", "getUser">>>>, <<"in2", <<"ping">>>>},
        sg \in {Undefined, Signals[c]}}

\* The exits of the computation of a body that answers with its input,
\* fails with an error of its errors map, or dies.
ConcurrentExits(eo) ==
    {Success([kind |-> "Result", input |-> eo.input]),
     Failure(Fail(ConstructorMapCall(eo.errors, "USER_NOT_FOUND_ERROR",
                                     [NoOptions EXCEPT !.data = eo.input]))),
     Failure(Die(ErrorValue(<<"oops">>)))}

IdleCall ==
    [pc |-> "idle", opts |-> NoCall, effectOpts |-> NoCall, spanName |-> <<>>,
     runCalls |-> <<>>, aborted |-> FALSE, exit |-> NoCall, outcomes |-> <<>>]

ConcurrentInit ==
    /\ def \in {d \in ProcedureDefs : d.runtime.services = {}}
    /\ pc = "calls"
    /\ opts = NoCall
    /\ effectOpts = NoCall
    /\ spanName = <<>>
    /\ bodyCalls = <<>>
    /\ runCalls = <<>>
    /\ aborted = FALSE
    /\ interrupted = FALSE
    /\ exit = NoCall
    /\ outcomes = <<>>
    /\ NoChain
    /\ NoLookup
    /\ NoTagged
    /\ NoTree
    /\ NoRouter
    /\ calls = [c \in CallIds |-> IdleCall]

\* What the other variables do during a step of one of the calls.
OneCall ==
    /\ UNCHANGED <<handlerVars, builderVars, errorsVars, taggedVars, treeVars,
                   routerVars>>

\* A handler keeping the options of the call in a place all calls share:
\* a call that starts while another is in flight works with the other's.
ConcurrentInvoke_SharedOptions(c, o) ==
    /\ calls[c].pc = "idle"
    /\ LET others == {k \in CallIds : calls[k].pc = "running"}
           shared == IF others = {} THEN o
                     ELSE calls[CHOOSE k \in others : TRUE].opts
           h == HandlerBegin(def, shared)
       IN  calls' = [calls EXCEPT ![c] =
                        [pc |-> "running", opts |-> o,
                         effectOpts |-> h.effectOpts, spanName |-> h.spanName,
                         runCalls |-> h.runCalls, aborted |-> FALSE,
                         exit |-> NoCall, outcomes |-> <<>>]]
    /\ OneCall

\* The RPC layer calls the handler for call c; it runs up to its await.
ConcurrentInvoke(c, o) ==
    /\ calls[c].pc = "idle"
    /\ LET h == HandlerBegin(def, o)
       IN  calls' = [calls EXCEPT ![c] =
                        [pc |-> "running", opts |-> o,
                         effectOpts |-> h.effectOpts, spanName |-> h.spanName,
                         runCalls |-> h.runCalls, aborted |-> FALSE,
                         exit |-> NoCall, outcomes |-> <<>>]]
    /\ OneCall

\* The caller of call c triggers the signal it passed.
ConcurrentAbort(c) ==
    /\ calls[c].pc = "running"
    /\ calls[c].opts.signal # Undefined
    /\ ~calls[c].aborted
    /\ calls' = [calls EXCEPT ![c].aborted = TRUE]
    /\ OneCall

\* The runtime interrupts the fiber of a run whose signal was triggered.
ConcurrentInterrupt(c) ==
    /\ calls[c].pc = "running"
    /\ \E k \in CallIds :
          /\ calls[k].aborted
          /\ calls[k].opts.signal = calls[c].runCalls[1].signal
    /\ calls' = [calls EXCEPT ![c].exit = Failure(Interrupt(RunFiber)),
                              ![c].pc = "exited"]
    /\ OneCall

\* The computation of call c reaches its own exit.
ConcurrentExit(c) ==
    /\ calls[c].pc = "running"
    /\ \E e \in ConcurrentExits(calls[c].effectOpts) :
          calls' = [calls EXCEPT ![c].exit = e, ![c].pc = "exited"]
    /\ OneCall

\* The handler of call c resumes after its await and returns or throws.
ConcurrentSettle(c) ==
    /\ calls[c].pc = "exited"
    /\ calls' = [calls EXCEPT ![c].outcomes = HandlerSettle(calls[c].exit),
                              ![c].pc = "settled"]
    /\ OneCall

\* Call c is over; the handler can be called again in its place.
ConcurrentReturn(c) ==
    /\ calls[c].pc = "settled"
    /\ calls' = [calls EXCEPT ![c] = IdleCall]
    /\ OneCall

ConcurrentNext ==
    \E c \in CallIds :
        \/ \E o \in ConcurrentOptions(c) : ConcurrentInvoke(c, o)
        \/ ConcurrentAbort(c)
        \/ ConcurrentInterrupt(c)
        \/ ConcurrentExit(c)
        \/ ConcurrentSettle(c)
        \/ ConcurrentReturn(c)

ConcurrentSpec == ConcurrentInit /\ [][ConcurrentNext]_vars

\* What call c works with is its own: the options for the body, the span
\* name and the run are made from the call's options and the definition.
OwnLocals(c) ==
    LET k == calls[c]
    IN  /\ k.effectOpts.context = k.opts.context
        /\ k.effectOpts.input = k.opts.input
        /\ k.effectOpts.path = k.opts.path
        /\ k.effectOpts.signal = k.opts.signal
        /\ k.effectOpts.errors = createEffectErrorConstructorMap(def.effectErrorMap)
        /\ k.spanName = IF def.spanConfig.kind # "Undefined"
                        THEN <<def.spanConfig.name>>
                        ELSE JoinPath(k.opts.path)
        /\ Len(k.runCalls) = 1
        /\ k.runCalls[1].signal = k.opts.signal
        /\ k.runCalls[1].runtime = def.runtime

\* The outcome of call c follows from its own exit, and an exit by
\* interruption from the call's own signal.
OwnOutcome(c) ==
    LET k == calls[c]
    IN  /\ k.exit = Failure(Interrupt(RunFiber)) =>
              (k.aborted /\ k.opts.signal # Undefined)
        /\ k.pc = "settled" =>
              /\ Len(k.outcomes) = 1
              /\ IF isFailure(k.exit)
                 THEN k.outcomes[1] =
                          [kind |-> "rejected", error |-> CauseMatch(k.exit.cause)]
                 ELSE /\ k.outcomes[1] =
                             [kind |-> "resolved", value |-> k.exit.value]
                      /\ k.exit.value.input = k.opts.input

\* C27: whatever the other calls of the same handler do, a call works with
\* its own options, its run is given its own signal, it is interrupted only
\* through its own signal, and its outcome follows from its own exit: two
\* settled calls with the same options and the same exit have the same
\* outcome.  The definition of the procedure, its runtime included, is
\* never changed by a call.
C27_CallsAreIndependent ==
    /\ def \in ProcedureDefs
    /\ \A c \in CallIds :
          calls[c].pc # "idle" => (OwnLocals(c) /\ OwnOutcome(c))
    /\ \A c1, c2 \in CallIds :
          (/\ calls[c1].pc = "settled" /\ calls[c2].pc = "settled"
           /\ calls[c1].opts = calls[c2].opts
           /\ calls[c1].exit = calls[c2].exit)
              => calls[c1].outcomes = calls[c2].outcomes

C27_Witness ==
    /\ calls[1].pc = "settled"
    /\ calls[2].pc = "running"
    /\ calls[1].opts.input = "in1"
    /\ calls[2].opts.input = "in2"
    /\ calls[2].aborted
    /\ calls[1].outcomes[1].kind = "rejected"
    /\ calls[1].outcomes[1].error.code = "USER_NOT_FOUND_ERROR"
    /\ calls[1].outcomes[1].error.data = "in1"

(***************************************************************************)
(* Routers enhanced by a builder: builder.router() and builder.lazy().     *)
(***************************************************************************)
\* Largest number of entries of the router given to the builder.
MaxRoutes == 2

RouterKeys == {"users", "posts", "admin"}

OwnMiddleware == [kind |-> "Middleware", name |-> "own"]

\* The builders that enhance a router: one with a middleware, a tagged class
\* and a template, the same without deduplication of leading middlewares,
\* and one with a prefix and tags only.
RouterBuilders ==
    LET rt == [kind |-> "ManagedRuntime", services |-> {"UserService"}]
        configured ==
            BuilderErrors(makeEffectORPC(rt, ConfiguredBuilder),
                Obj(<<Entry("USER_NOT_FOUND_ERROR", UserNotFoundError),
                      Entry("BAD_REQUEST",
                            ErrorMapItem(<<400>>, "Bad request", Undefined))>>))
    IN  {configured,
         [configured EXCEPT !.dedupeLeadingMiddlewares = FALSE],
         BuilderTag(BuilderPrefix(makeEffectORPC(rt, emptyBuilder),
                                  <<"/api">>),
                    <<"users">>)}

\* The procedures of the routers: one validating before its own middleware
\* with a class and a template of its own, one made from the configured
\* builder, whose middlewares start with the builder's, and one with a
\* route path and a template under a key of the builder's class.
RouterProcedures ==
    LET rt == [kind |-> "ManagedRuntime", services |-> {}]
        base == makeEffectORPC(rt, emptyBuilder)
    IN  {BuilderEffect(
             BuilderUse(
                 BuilderInput(
                     BuilderErrors(base,
                         Obj(<<Entry("BAD_REQUEST", ValidationError),
                               Entry("USER_NOT_FOUND",
                                     ErrorMapItem(<<>>, "Not found",
                                                  Undefined))>>)),
                     "schema:input"),
                 OwnMiddleware, Undefined),
             "effectFn"),
         BuilderEffect(
             BuilderOutput(
                 BuilderInput(
                     BuilderUse(makeEffectORPC(rt, ConfiguredBuilder),
                                OwnMiddleware, Undefined),
                     "schema:input"),
                 "schema:output"),
             "effectFn"),
         BuilderEffect(
             BuilderRoute(
                 BuilderErrors(base,
                     Obj(<<Entry("USER_NOT_FOUND_ERROR",
                                 ErrorMapItem(<<404>>, "Gone", Undefined))>>)),
                 Obj(<<Entry("path", <<"/users">>)>>)),
             "effectFn")}

\* What a key of the router can hold: a procedure, a router of one
\* procedure, or a lazy router of one procedure with a prefix of its own.
RouterNodes ==
    RouterProcedures
    \cup {Obj(<<Entry("get", p)>>) : p \in RouterProcedures}
    \cup {lazy(Obj(<<Entry("get", p)>>), [prefix |-> <<"/lazy">>]) :
             p \in RouterProcedures}

RouterInit ==
    /\ NoHandler
    /\ NoLookup
    /\ NoTagged
    /\ NoTree
    /\ calls = <<>>
    /\ builder \in RouterBuilders
    /\ receiver = NoCall
    /\ lastCall = NoCall
    /\ registered = <<>>
    /\ chain = <<>>
    /\ traces = <<>>
    /\ routerArg = Obj(<<>>)
    /\ routerResult = NoCall

\* The program writes one more entry of the router it will pass.
RouterAdd(key, value) ==
    /\ routerResult = NoCall
    /\ Len(routerArg.entries) < MaxRoutes
    /\ ~HasKey(routerArg, key)
    /\ routerArg' = Assign(routerArg, key, value)
    /\ UNCHANGED <<handlerVars, builderVars, errorsVars, taggedVars, treeVars,
                   calls, routerResult>>

\* builder.router(router)
CallRouter ==
    /\ routerResult = NoCall
    /\ routerResult' = [via |-> "router",
                        value |-> BuilderRouter(builder, routerArg)]
    /\ UNCHANGED <<handlerVars, builderVars, errorsVars, taggedVars, treeVars,
                   calls, routerArg>>

\* builder.lazy(loader), the loader giving the router.
CallLazy ==
    /\ routerResult = NoCall
    /\ routerResult' = [via |-> "lazy",
                        value |-> BuilderLazy(builder, routerArg)]
    /\ UNCHANGED <<handlerVars, builderVars, errorsVars, taggedVars, treeVars,
                   calls, routerArg>>

RouterNext ==
    \/ \E key \in RouterKeys, value \in RouterNodes : RouterAdd(key, value)
    \/ CallRouter
    \/ CallLazy

RouterSpec == RouterInit /\ [][RouterNext]_vars

\* The procedures of a router with their paths, lazy routers loaded.
RECURSIVE ProceduresAt(_, _)
ProceduresAt(router, path) ==
    IF isLazy(router) THEN ProceduresAt(router.loaded, path)
    ELSE IF isProcedure(router) THEN {<<path, router>>}
    ELSE UNION {ProceduresAt(router.entries[i].value,
                             Append(path, router.entries[i].key)) :
                   i \in 1..Len(router.entries)}

Enhanced == routerResult # NoCall

\* The procedure the enhanced router holds at a path.
EnhancedAt(path) ==
    CHOOSE q \in {e[2] : e \in {x \in ProceduresAt(routerResult.value, <<>>) :
                                   x[1] = path}} : TRUE

\* The enhanced router has a procedure wherever the router had one.
SameShape ==
    {e[1] : e \in ProceduresAt(routerResult.value, <<>>)}
        = {e[1] : e \in ProceduresAt(routerArg, <<>>)}

\* C28 as stated: each procedure of the enhanced router has as its effect
\* error registry the builder's effect error registry with the procedure's
\* own effect error registry spread over it, so the procedure's entries win
\* and the tagged error classes of both are still classes.
C28_RouterMergesEffectRegistries ==
    Enhanced =>
        /\ SameShape
        /\ \A e \in ProceduresAt(routerArg, <<>>) :
              EnhancedAt(e[1]).effectErrorMap
                  = Spread(builder.effectErrorMap, e[2].effectErrorMap)

\* C28, what the code does: the registry of the enhanced procedure is the
\* builder's plain registry with the procedure's plain registry spread over
\* it, so no entry of it is a tagged error class.
C28_RouterMergesPlainRegistries ==
    Enhanced =>
        /\ SameShape
        /\ \A e \in ProceduresAt(routerArg, <<>>) :
              LET merged == EnhancedAt(e[1]).effectErrorMap
              IN  /\ merged = Spread(builder.errorMap, e[2].errorMap)
                  /\ \A i \in 1..Len(merged.entries) :
                        ~isORPCTaggedErrorClass(merged.entries[i].value)

\* A builder with a tagged class has enhanced a procedure with a tagged
\* class of its own.
C28_Witness ==
    /\ Enhanced
    /\ \E i \in 1..Len(builder.effectErrorMap.entries) :
          isORPCTaggedErrorClass(builder.effectErrorMap.entries[i].value)
    /\ \E e \in ProceduresAt(routerArg, <<>>) :
          \E i \in 1..Len(e[2].effectErrorMap.entries) :
              isORPCTaggedErrorClass(e[2].effectErrorMap.entries[i].value)

\* The procedure's middlewares start with the builder's and the builder
\* deduplicates leading middlewares.
Deduplicated(p) ==
    /\ builder.dedupeLeadingMiddlewares
    /\ isStartWithMiddlewares(p.middlewares, builder.middlewares)

\* C29: in the enhanced procedure the middlewares are the procedure's own
\* with some number of middlewares added in front of them, both validation
\* indices have grown by that number, and where deduplication of leading
\* middlewares adds nothing both indices are those of the procedure.
C29_IndicesGrowByMiddlewaresAdded ==
    Enhanced =>
        \A e \in ProceduresAt(routerArg, <<>>) :
            LET p == e[2]
                q == EnhancedAt(e[1])
                added == Len(q.middlewares) - Len(p.middlewares)
            IN  /\ added >= 0
                /\ SubSeq(q.middlewares, added + 1, Len(q.middlewares))
                       = p.middlewares
                /\ q.inputValidationIndex = p.inputValidationIndex + added
                /\ q.outputValidationIndex = p.outputValidationIndex + added
                /\ Deduplicated(p) =>
                      /\ added = 0
                      /\ q.inputValidationIndex = p.inputValidationIndex
                      /\ q.outputValidationIndex = p.outputValidationIndex
                /\ ~Deduplicated(p) => added = Len(builder.middlewares)

\* One enhanced router holds a procedure the builder's middleware was put
\* in front of and a procedure deduplication added nothing to.
C29_Witness ==
    /\ Enhanced
    /\ builder.middlewares # <<>>
    /\ \E e \in ProceduresAt(routerArg, <<>>) :
          /\ ~Deduplicated(e[2])
          /\ e[2].middlewares # <<>>
          /\ EnhancedAt(e[1]).inputValidationIndex
                 = e[2].inputValidationIndex + 1
    /\ \E e \in ProceduresAt(routerArg, <<>>) :
          /\ Deduplicated(e[2])
          /\ EnhancedAt(e[1]).middlewares = e[2].middlewares

====
